---- MODULE Spec2Model ----
(***************************************************************************)
(* A model of the job-matching and deduplication pipeline:                 *)
(*   new.py                 scrape_and_match_task (the orchestrator)       *)
(*   scraper.py             scrape_jobs (pre-scrape dedup)                 *)
(*   llm_scraper.py         extract_linkedin_job_id_from_url               *)
(*   filters.py             pre_filter_job, batch_pre_filter_jobs          *)
(*   llm_batch_matcher.py   batch_match_jobs, create_fallback_match        *)
(*   rule_based_matcher.py  rule_based_match, batch_rule_based_match       *)
(*   database.py            the MongoDB singleton and its close counter    *)
(*   discord_notifier.py    send_discord_notification, send_summary_...    *)
(*                                                                         *)
(* Scores are kept in tenths (800 is 80.0), the precision of round(x, 1).  *)
(* A text is a sequence of words; a Python value that may be None or a     *)
(* number is a record [t, v].  A function that may raise returns a record  *)
(* with a field "raised".                                                  *)
(***************************************************************************)
EXTENDS Integers, Sequences, FiniteSets, TLC

\* ------------------------------------------------------------------ bounds
\* the longest list of job URLs the search page yields in one run
MaxUrls == 2
\* the number of runs of scrape_and_match_task in one behaviour
MaxRuns == 2
\* the number of injected failures (database, browser, webhook) per run
MaxFaults == 1
\* the longest "results" array of a service response
MaxItems == 2
\* the most new jobs one search yields to each of two overlapping runs
MaxOverlapJobs == 1
MaxYears == 10
\* the number of failing store or webhook calls in one run's per-job loop
MaxStoreFaults == 2
\* the number of runs of a process with its scheduler: the startup run and two
MaxSchedulerRuns == 3

\* --------------------------------------------------------- small helpers
SeqsUpTo(S, n) == UNION {[1..k -> S] : k \in 0..n}

Min(a, b) == IF a <= b THEN a ELSE b

\* Python values: a number (scores: in tenths), None, or a missing dict key
PyNone == [t |-> "None", v |-> 0]
PyMissing == [t |-> "missing", v |-> 0]
PyNum(n) == [t |-> "num", v |-> n]

\* text values: a str (its words), None, or a missing dict key
Str(words) == [t |-> "str", v |-> words]
NoneText == [t |-> "None", v |-> <<>>]
MissingText == [t |-> "missing", v |-> <<>>]


\* list values: a list (its elements in order), or a missing dict key
PyList(elements) == [t |-> "list", v |-> elements]
NoList == [t |-> "missing", v |-> <<>>]

Range(seq) == {seq[i] : i \in 1..Len(seq)}

\* the elements of a collection in the order a loop over it meets them
ListOf(S) == CHOOSE seq \in [1..Cardinality(S) -> S] : Range(seq) = S

\* dict.get(key, ''): the default for a missing key, the value (None too) otherwise
GetText(x) == IF x.t = "missing" THEN Str(<<>>) ELSE x

\* an f-string's rendering of a text value
FStr(x) == IF x.t = "None" THEN <<"None">> ELSE x.v

\* Python truthiness of a text value
Truthy(x) == x.t = "str" /\ x.v # <<>>

\* ---------------------------------------------------------- job identity
Paths == {"/jobs/view/1", "/jobs/view/2"}
Queries == {"", "refId=a"}
Urls == [scheme : {"https"}, netloc : {"www.linkedin.com"}, path : Paths, query : Queries]

\* llm_scraper.py get_clean_linkedin_url: scheme + netloc + path, no query
get_clean_linkedin_url(job_url) ==
    <<job_url.scheme, job_url.netloc, job_url.path>>

\* hashlib.md5(...).hexdigest(): collision-free on the clean URLs of the model;
\* the digest of a clean URL is represented by a tagged copy of it
md5(s) == <<"md5">> \o s

\* an id that hashes the URL as listed, tracking parameters included
extract_linkedin_job_id_with_query(job_url) ==
    md5(<<job_url.scheme, job_url.netloc, job_url.path, job_url.query>>)

\* llm_scraper.py extract_linkedin_job_id_from_url
extract_linkedin_job_id_from_url(job_url) ==
    LET clean_url == <<job_url.scheme, job_url.netloc, job_url.path>>
    IN  md5(clean_url)

JobIds == {extract_linkedin_job_id_from_url(u) : u \in Urls}

\* ------------------------------------------------------------------ texts
\* str.lower() on the words of the model
Lower(w) ==
    CASE w = "Data" -> "data"
      [] w = "Engineer" -> "engineer"
      [] w = "Python" -> "python"
      [] w = "SQL" -> "sql"
      [] w = "AWS" -> "aws"
      [] w = "Spark" -> "spark"
      [] w = "PySpark" -> "pyspark"
      [] w = "MySQL" -> "mysql"
      [] w = "Chef" -> "chef"
      [] OTHER -> w

LowerText(text) == [i \in 1..Len(text) |-> Lower(text[i])]

\* keyword k occurs inside the single word w (Python's  k in w)
InsideWord(k, w) ==
    \/ k = w
    \/ <<k, w>> \in { <<"spark", "pyspark">>, <<"sql", "mysql">>,
                      <<"sql", "postgresql">>, <<"lead", "leading">>,
                      <<"etl", "settle">> }

\* the phrase (a sequence of words) occurs in the text, its first word
\* ending a word of the text and its last word starting one:
\* Python's  " ".join(phrase) in text  for the phrases of the model,
\* whose inner words match whole words
PhraseIn(phrase, text) ==
    IF Len(phrase) = 1
    THEN \E i \in 1..Len(text) : InsideWord(phrase[1], text[i])
    ELSE \E i \in 1..(Len(text) - Len(phrase) + 1) :
            \A j \in 1..Len(phrase) : text[i + j - 1] = phrase[j]

\* re.search(r'\b' + phrase + r'\b', text): whole words only
WholeWordIn(phrase, text) ==
    \E i \in 1..(Len(text) - Len(phrase) + 1) :
        \A j \in 1..Len(phrase) : text[i + j - 1] = phrase[j]

\* the postings of the site: what scraping a posting's page yields
PostingAt(path) ==
    IF path = "/jobs/view/1"
    THEN [job_title |-> <<"Data", "Engineer">>, description |-> <<"Python", "SQL", "AWS">>]
    ELSE [job_title |-> <<"Chef">>, description |-> <<"cooking">>]

\* llm_scraper.py scrape_job_details_enhanced / scrape_job_details_basic:
\* the job dict built from a posting's page
scrape_job_details(job_url) ==
    [ job_id |-> extract_linkedin_job_id_from_url(job_url),
      url |-> get_clean_linkedin_url(job_url),
      job_title |-> Str(PostingAt(job_url.path).job_title),
      description |-> Str(PostingAt(job_url.path).description) ]

Jobs == {scrape_job_details(u) : u \in Urls}

\* ------------------------------------------------------------- pre-filter
JOB_TITLE_KEYWORDS ==
    { <<"data", "engineer">>, <<"analytics", "engineer">>, <<"data", "engineering">>,
      <<"analytics", "engineering">>, <<"etl", "engineer">>, <<"ml", "engineer">> }

REQUIRED_SKILLS ==
    { <<"databricks">>, <<"pyspark">>, <<"spark">>, <<"sql">>, <<"python">>,
      <<"etl">>, <<"aws">>, <<"gcp">>, <<"azure">> }

MIN_SKILL_MATCHES == 3

\* filters.py check_keyword_match: the keywords found in the lowered text
check_keyword_match(text, keywords) ==
    IF ~Truthy(text) THEN {}
    ELSE {k \in keywords : PhraseIn(k, LowerText(text.v))}

\* a filter that asks for a title match and enough skills
pre_filter_job_both(job) ==
    LET job_title == GetText(job.job_title)
        job_description == GetText(job.description)
        combined_text == Str(FStr(job_title) \o FStr(job_description))
        title_match == check_keyword_match(job_title, JOB_TITLE_KEYWORDS) # {}
        matched_skills == check_keyword_match(combined_text, REQUIRED_SKILLS)
        skill_count == Cardinality(matched_skills)
        passed == title_match /\ skill_count >= MIN_SKILL_MATCHES
    IN  [ job_id |-> job.job_id,
          passed |-> passed,
          title_match |-> title_match,
          skill_matches |-> matched_skills,
          skill_count |-> skill_count,
          reason |-> IF passed THEN [text |-> "Title, Skills", title |-> title_match,
                                     skills |-> matched_skills]
                     ELSE [text |-> "Insufficient matches. Skills", title |-> FALSE,
                           skills |-> matched_skills] ]

\* filters.py pre_filter_job
pre_filter_job(job) ==
    LET job_title == GetText(job.job_title)
        job_description == GetText(job.description)
        combined_text == Str(FStr(job_title) \o FStr(job_description))
        title_keywords == check_keyword_match(job_title, JOB_TITLE_KEYWORDS)
        title_match == title_keywords # {}
        matched_skills == check_keyword_match(combined_text, REQUIRED_SKILLS)
        skill_count == Cardinality(matched_skills)
        passed == title_match \/ skill_count >= MIN_SKILL_MATCHES
    IN  [ job_id |-> job.job_id,
          passed |-> passed,
          title_match |-> title_match,
          skill_matches |-> matched_skills,
          skill_count |-> skill_count,
          reason |-> IF passed THEN [text |-> "Title, Skills", title |-> title_match,
                                     skills |-> matched_skills]
                     ELSE [text |-> "Insufficient matches. Skills", title |-> FALSE,
                           skills |-> matched_skills] ]

\* filters.py batch_pre_filter_jobs: (passed_jobs, rejected_jobs)
batch_pre_filter_jobs(jobs) ==
    << SelectSeq(jobs, LAMBDA j : pre_filter_job(j).passed),
       SelectSeq(jobs, LAMBDA j : ~pre_filter_job(j).passed) >>

\* ----------------------------------------------------- rule-based matcher
DATA_ENGINEERING_SKILLS ==
    [ core |-> { <<"sql">>, <<"python">>, <<"etl">>, <<"data", "pipeline">>,
                 <<"data", "warehousing">>, <<"data", "modeling">> },
      big_data |-> { <<"spark">>, <<"pyspark">>, <<"hadoop">>, <<"kafka">>,
                     <<"airflow">>, <<"databricks">> },
      cloud |-> { <<"aws">>, <<"azure">>, <<"gcp">>, <<"snowflake">>, <<"s3">>,
                  <<"redshift">>, <<"bigquery">> },
      databases |-> { <<"postgresql">>, <<"mysql">>, <<"mongodb">>, <<"redis">>,
                      <<"cassandra">>, <<"dynamodb">> },
      tools |-> { <<"docker">>, <<"kubernetes">>, <<"git">>, <<"jenkins">>,
                  <<"terraform">>, <<"dbt">> },
      languages |-> { <<"java">>, <<"scala">>, <<"r">>, <<"bash">>,
                      <<"shell", "scripting">> },
      ml |-> { <<"machine", "learning">>, <<"tensorflow">>, <<"scikit-learn">>,
               <<"pandas">>, <<"numpy">> } ]

ALL_SKILLS == UNION {DATA_ENGINEERING_SKILLS[c] : c \in DOMAIN DATA_ENGINEERING_SKILLS}

\* the levels in the dict's order, each with its keywords
EXPERIENCE_LEVELS == <<"entry", "mid", "senior", "expert">>

EXPERIENCE_KEYWORDS ==
    [ entry |-> { <<"junior">>, <<"entry", "level">>, <<"0-2", "years">>, <<"graduate">>,
                  <<"fresher">>, <<"associate">> },
      mid |-> { <<"mid", "level">>, <<"2-5", "years">>, <<"3-5", "years">>,
                <<"intermediate">>, <<"engineer", "ii">> },
      senior |-> { <<"senior">>, <<"5+", "years">>, <<"7+", "years">>, <<"lead">>,
                   <<"principal">>, <<"staff">>, <<"architect">> },
      expert |-> { <<"expert">>, <<"10+", "years">>, <<"director">>, <<"head", "of">>,
                   <<"vp">>, <<"chief">> } ]

RED_FLAGS ==
    { <<"extensive", "travel", "required">>, <<"on-call", "24/7">>, <<"must", "relocate">>,
      <<"commission", "only">>, <<"unpaid", "internship">>, <<"mandatory", "weekends">> }

\* rule_based_matcher.py extract_skills_from_text (known_skills = ALL_SKILLS)
extract_skills_from_text(text) ==
    IF ~Truthy(text) THEN {}
    ELSE {skill \in ALL_SKILLS : WholeWordIn(skill, LowerText(text.v))}

\* rule_based_matcher.py calculate_skill_match_score: the match percentage as
\* the fraction pct_num / pct_den of 100, the matched and the missing skills
calculate_skill_match_score(resume_skills, job_skills) ==
    IF job_skills = {}
    THEN [pct_num |-> 50, pct_den |-> 1, matched |-> {}, missing |-> {}]
    ELSE LET resume_skills_set == {LowerText(s) : s \in resume_skills}
             job_skills_set == {LowerText(s) : s \in job_skills}
         IN  [ pct_num |-> 100 * Cardinality(resume_skills_set \cap job_skills_set),
               pct_den |-> Cardinality(job_skills_set),
               matched |-> resume_skills_set \cap job_skills_set,
               missing |-> job_skills_set \ resume_skills_set ]

\* rule_based_matcher.py detect_experience_level (text is a str)
detect_experience_level(text) ==
    LET hit(level) == \E k \in EXPERIENCE_KEYWORDS[level] : PhraseIn(k, LowerText(text.v))
        hits == {i \in 1..Len(EXPERIENCE_LEVELS) : hit(EXPERIENCE_LEVELS[i])}
    IN  IF hits = {} THEN "mid"
        ELSE EXPERIENCE_LEVELS[CHOOSE i \in hits : \A j \in hits : i <= j]

\* the numbers the four patterns of extract_years_of_experience capture from
\* a word that is followed by "years"
YearsCaptured(w) ==
    CASE w = "2" -> {2}
      [] w = "5" -> {5}
      [] w = "5+" -> {5}
      [] w = "7+" -> {7}
      [] w = "10+" -> {10}
      [] w = "3-5" -> {3, 5}
      [] OTHER -> {}

\* rule_based_matcher.py extract_years_of_experience (text is a str)
extract_years_of_experience(text) ==
    LET words == LowerText(text.v)
        years == UNION {YearsCaptured(words[i]) :
                          i \in {k \in 1..(Len(words) - 1) : words[k + 1] = "years"}}
    IN  IF years = {} THEN 0 ELSE CHOOSE y \in years : \A z \in years : z <= y

\* rule_based_matcher.py detect_red_flags (text is a str)
detect_red_flags(text) ==
    {flag \in RED_FLAGS : PhraseIn(flag, LowerText(text.v))}

\* a score that takes a requirement of 0 years as it stands
calculate_experience_score_no_default(resume_years, required_years, job_level) ==
    IF resume_years >= required_years THEN 100
    ELSE IF resume_years * 10 >= required_years * 7 THEN 80
    ELSE IF resume_years * 10 >= required_years * 5 THEN 60
    ELSE 40

\* rule_based_matcher.py calculate_experience_score, in whole points
calculate_experience_score(resume_years, required_years, job_level) ==
    LET level_requirements == [entry |-> 1, mid |-> 3, senior |-> 6, expert |-> 10]
        required == IF required_years = 0 THEN level_requirements[job_level]
                    ELSE required_years
    IN  IF resume_years >= required THEN 100
        ELSE IF resume_years * 10 >= required * 7 THEN 80
        ELSE IF resume_years * 10 >= required * 5 THEN 60
        ELSE 40

\* round(num / den, 1) in tenths
RoundTenths(num, den) == (20 * num + den) \div (2 * den)

\* a classification whose two upper thresholds are swapped
classify_swapped(total_num, total_den, red_flags) ==
    LET atLeast(points) == total_num >= points * total_den
        tier == IF atLeast(80) THEN "GOOD"
                ELSE IF atLeast(65) THEN "EXCELLENT"
                ELSE IF atLeast(50) THEN "FAIR"
                ELSE "POOR"
    IN  [ classification |-> IF red_flags # {} /\ tier = "EXCELLENT" THEN "GOOD" ELSE tier,
          recommendation |-> IF red_flags # {} THEN "CONSIDER"
                             ELSE IF atLeast(65) THEN "APPLY"
                             ELSE IF atLeast(50) THEN "CONSIDER"
                             ELSE "SKIP" ]

\* a classification that ignores the red flags
classify_no_red_flags(total_num, total_den, red_flags) ==
    LET atLeast(points) == total_num >= points * total_den
    IN  [ classification |-> IF atLeast(80) THEN "EXCELLENT"
                             ELSE IF atLeast(65) THEN "GOOD"
                             ELSE IF atLeast(50) THEN "FAIR"
                             ELSE "POOR",
          recommendation |-> IF atLeast(65) THEN "APPLY"
                             ELSE IF atLeast(50) THEN "CONSIDER"
                             ELSE "SKIP" ]

\* rule_based_matcher.py rule_based_match, lines 347-365: the classification
\* and the recommendation of the total score total_num / total_den
classify(total_num, total_den, red_flags) ==
    LET atLeast(points) == total_num >= points * total_den
        tier == IF atLeast(80) THEN "EXCELLENT"
                ELSE IF atLeast(65) THEN "GOOD"
                ELSE IF atLeast(50) THEN "FAIR"
                ELSE "POOR"
        tier_recommendation == IF atLeast(65) THEN "APPLY"
                               ELSE IF atLeast(50) THEN "CONSIDER"
                               ELSE "SKIP"
    IN  [ classification |-> IF red_flags # {} /\ tier = "EXCELLENT" THEN "GOOD" ELSE tier,
          recommendation |-> IF red_flags # {} THEN "CONSIDER" ELSE tier_recommendation ]

\* rule_based_matcher.py rule_based_match, lines 304-309: the caller's dict
\* after one call. With a non-empty 'all_skills' nothing is written; otherwise
\* resume_skills is resume_data.get('skills', []), the dict's own list when the
\* key is there, and the two extend calls grow that list in place
resume_after_match(resume_data) ==
    IF resume_data.all_skills = {} /\ resume_data.skills.t = "list"
    THEN [resume_data EXCEPT !.skills =
             PyList(@.v \o ListOf(resume_data.primary_skills)
                        \o ListOf(resume_data.secondary_skills))]
    ELSE resume_data

\* the caller's dict after n calls of rule_based_match
RECURSIVE resume_after_calls(_, _)
resume_after_calls(resume_data, n) ==
    IF n = 0 THEN resume_data
    ELSE resume_after_calls(resume_after_match(resume_data), n - 1)

\* rule_based_matcher.py rule_based_match raises: None.lower() on a None
\* description, a comparison of None with a number for the resume's years
rule_based_match_raises(job, resume_data) ==
    \/ GetText(job.description).t = "None"
    \/ resume_data.total_experience_years.t = "None"

\* rule_based_matcher.py rule_based_match: the match result when it does not raise
rule_based_match(job, resume_data) ==
    LET job_description == GetText(job.description)
        job_title == GetText(job.job_title)
        combined_job_text == Str(FStr(job_title) \o FStr(job_description))
        resume_skills == IF resume_data.all_skills # {} THEN resume_data.all_skills
                         ELSE Range(resume_data.skills.v)
                              \cup resume_data.primary_skills \cup resume_data.secondary_skills
        job_skills == extract_skills_from_text(combined_job_text)
        sm == calculate_skill_match_score(resume_skills, job_skills)
        required_years == extract_years_of_experience(job_description)
        job_level == detect_experience_level(job_description)
        resume_years == IF resume_data.total_experience_years.t = "missing" THEN 0
                        ELSE resume_data.total_experience_years.v
        experience_score == calculate_experience_score(resume_years, required_years, job_level)
        red_flags == detect_red_flags(job_description)
        critical_skills == { <<"sql">>, <<"python">>, <<"etl">>, <<"data", "pipeline">> }
        has_critical == sm.matched \cap critical_skills
        \* technical_score = tech_num / pct_den
        tech_num == IF Cardinality(has_critical) >= 2
                    THEN Min(sm.pct_num + 10 * sm.pct_den, 100 * sm.pct_den)
                    ELSE sm.pct_num
        \* ten times total_score = total10_num / pct_den
        total10_num == 6 * tech_num + (3 * experience_score + 80) * sm.pct_den
        verdict == classify(total10_num, 10 * sm.pct_den, red_flags)
        classification == verdict.classification
        recommendation == verdict.recommendation
    IN  [ job_id |-> job.job_id,
          scores |-> [ technical |-> PyNum(RoundTenths(tech_num, sm.pct_den)),
                       experience |-> PyNum(10 * experience_score),
                       culture |-> PyNum(800),
                       total |-> PyNum(RoundTenths(total10_num, 10 * sm.pct_den)) ],
          classification |-> classification,
          recommendation |-> recommendation,
          matched_skills |-> sm.matched,
          skill_gaps |-> sm.missing,
          deal_breakers |-> red_flags,
          llm_analysis |-> FALSE,
          llm_model |-> "None",
          fallback_reason |-> "Rule-based analysis (LLM unavailable)",
          matched_at |-> "now" ]

\* the minimal record batch_rule_based_match builds when rule_based_match raises
minimal_fallback(job) ==
    [ job_id |-> job.job_id,
      scores |-> [ technical |-> PyNum(500), experience |-> PyNum(500),
                   culture |-> PyNum(500), total |-> PyNum(500) ],
      classification |-> "FAIR",
      recommendation |-> "CONSIDER",
      matched_skills |-> {},
      skill_gaps |-> {},
      deal_breakers |-> {},
      llm_analysis |-> FALSE,
      llm_model |-> "None",
      fallback_reason |-> "Rule-based analysis error",
      matched_at |-> "now" ]

\* a batch loop without the try/except: a job whose analysis raises gets no entry
batch_rule_based_match_unguarded(jobs, resume_data) ==
    [ id \in {jobs[i].job_id : i \in {k \in 1..Len(jobs) :
                                        ~rule_based_match_raises(jobs[k], resume_data)}} |->
        LET last == CHOOSE i \in 1..Len(jobs) :
                        /\ jobs[i].job_id = id
                        /\ ~rule_based_match_raises(jobs[i], resume_data)
                        /\ \A k \in 1..Len(jobs) :
                              (jobs[k].job_id = id /\ ~rule_based_match_raises(jobs[k], resume_data))
                                  => k <= i
        IN  rule_based_match(jobs[last], resume_data) ]

\* rule_based_matcher.py batch_rule_based_match: job_id -> match result; a later
\* job of the list overwrites an earlier one with the same job_id
batch_rule_based_match(jobs, resume_data) ==
    [ id \in {jobs[i].job_id : i \in 1..Len(jobs)} |->
        LET last == CHOOSE i \in 1..Len(jobs) :
                        /\ jobs[i].job_id = id
                        /\ \A k \in 1..Len(jobs) : jobs[k].job_id = id => k <= i
        IN  IF rule_based_match_raises(jobs[last], resume_data)
            THEN minimal_fallback(jobs[last])
            ELSE rule_based_match(jobs[last], resume_data) ]

\* ------------------------------------------------------ LLM batch matcher
LLM_MODEL == "openai/gpt-4o-mini"

\* a job_id the service invents: the id of no input job
ForeignId == md5(<<"https", "www.linkedin.com", "/jobs/view/9">>)

\* no job_id (the key is missing, None or empty): falsy
NoId == <<>>

\* the totals a service result carries: 40.0, 85.0, or null
LlmTotals == {PyNum(400), PyNum(850), PyNone}

\* one element of the "results" array: a JSON object (kind "dict") with the
\* fields the service chose, or any other JSON value (kind "other")
OtherItem == [kind |-> "other", job_id |-> NoId, total |-> PyMissing, classification |-> "missing"]

ItemsFor(ids) ==
    [ kind : {"dict"}, job_id : ids \cup {ForeignId, NoId}, total : LlmTotals,
      classification : {"GOOD"} ] \cup {OtherItem}

\* what the service call yields: the call raises (transport error, no API
\* key), the text is not JSON, the JSON has no "results" key, "results" is
\* not an array, or "results" is an array of items
Responses(ids) ==
    [ kind : {"raise", "bad_json", "no_results_key", "results_not_list"}, results : {<<>>} ]
    \cup [ kind : {"ok"}, results : SeqsUpTo(ItemsFor(ids), MaxItems) ]

\* the service's answers during a run of the pipeline: the call raises, or
\* "results" holds well-formed items for input jobs, each job at most once
RunResponses(ids) ==
    { r \in Responses(ids) :
        /\ r.kind \in {"raise", "ok"}
        /\ \A i \in 1..Len(r.results) :
              /\ r.results[i].kind = "dict"
              /\ r.results[i].job_id \in ids
              /\ \A k \in 1..(i - 1) : r.results[k].job_id # r.results[i].job_id }

\* a mapping loop that forgets lines 249-251: the item is kept unstamped
unstamped_llm_result(item) ==
    [ job_id |-> item.job_id,
      scores |-> [ technical |-> PyNum(700), experience |-> PyNum(700),
                   culture |-> PyNum(700), total |-> item.total ],
      classification |-> item.classification,
      recommendation |-> "APPLY",
      matched_skills |-> {},
      skill_gaps |-> {},
      deal_breakers |-> {},
      llm_analysis |-> FALSE,
      llm_model |-> "None",
      fallback_reason |-> "missing",
      matched_at |-> "missing" ]

\* llm_batch_matcher.py batch_match_jobs, lines 249-253: a service result
\* stamped with its provenance
stamp_llm_result(item) ==
    [ job_id |-> item.job_id,
      scores |-> [ technical |-> PyNum(700), experience |-> PyNum(700),
                   culture |-> PyNum(700), total |-> item.total ],
      classification |-> item.classification,
      recommendation |-> "APPLY",
      matched_skills |-> {},
      skill_gaps |-> {},
      deal_breakers |-> {},
      llm_analysis |-> TRUE,
      llm_model |-> LLM_MODEL,
      fallback_reason |-> "missing",
      matched_at |-> "now" ]

\* llm_batch_matcher.py build_batch_prompt raises: None[:2500] on a None description
build_batch_prompt_raises(jobs) ==
    \E i \in 1..Len(jobs) : GetText(jobs[i].description).t = "None"

InputIds(jobs) == {jobs[i].job_id : i \in 1..Len(jobs)}

\* the last index of s whose element satisfies the test
LastIndex(s, Test(_)) ==
    CHOOSE i \in 1..Len(s) : Test(s[i]) /\ \A k \in 1..Len(s) : Test(s[k]) => k <= i

\* llm_batch_matcher.py batch_match_jobs, lines 244-257: job_id -> stamped result
results_map_of(results) ==
    LET ids == {results[i].job_id : i \in 1..Len(results)} \ {NoId}
    IN  [ id \in ids |-> stamp_llm_result(results[LastIndex(results, LAMBDA r : r.job_id = id)]) ]

\* a matcher that gives up on the whole batch when the response misses a job
batch_try_raises_on_missing(jobs, resume_data, resp) ==
    \/ build_batch_prompt_raises(jobs)
    \/ resp.kind # "ok"
    \/ \E i \in 1..Len(resp.results) : resp.results[i].kind = "other"
    \/ InputIds(jobs) \ DOMAIN results_map_of(resp.results) # {}

\* a matcher without the backfill of lines 262-272: the mapped results only
batch_match_jobs_no_backfill(jobs, resume_data, resp) ==
    IF jobs = <<>> THEN << >>
    ELSE IF build_batch_prompt_raises(jobs) \/ resp.kind # "ok"
            \/ \E i \in 1..Len(resp.results) : resp.results[i].kind = "other"
    THEN batch_rule_based_match(jobs, resume_data)
    ELSE results_map_of(resp.results)

\* the try block of batch_match_jobs (lines 211-274) raises
batch_try_raises(jobs, resume_data, resp) ==
    \/ build_batch_prompt_raises(jobs)
    \/ resp.kind # "ok"
    \/ \E i \in 1..Len(resp.results) : resp.results[i].kind = "other"
    \/ LET missing == InputIds(jobs) \ DOMAIN results_map_of(resp.results)
       IN  \E i \in 1..Len(jobs) :
              /\ jobs[i].job_id \in missing
              /\ rule_based_match_raises(jobs[i], resume_data)

\* a matcher whose handlers (lines 276-284) give up: an empty map on failure
batch_match_jobs_empty_on_error(jobs, resume_data, resp) ==
    IF jobs = <<>> THEN << >>
    ELSE IF batch_try_raises(jobs, resume_data, resp) THEN << >>
    ELSE LET results_map == results_map_of(resp.results)
             missing == InputIds(jobs) \ DOMAIN results_map
         IN  [ id \in DOMAIN results_map \cup missing |->
                 IF id \in missing
                 THEN rule_based_match(
                          jobs[CHOOSE i \in 1..Len(jobs) :
                                  /\ jobs[i].job_id = id
                                  /\ \A k \in (i + 1)..Len(jobs) : jobs[k].job_id # id],
                          resume_data)
                 ELSE results_map[id] ]

\* llm_batch_matcher.py batch_match_jobs
batch_match_jobs(jobs, resume_data, resp) ==
    IF jobs = <<>> THEN << >>
    ELSE IF batch_try_raises(jobs, resume_data, resp)
    THEN batch_rule_based_match(jobs, resume_data)
    ELSE LET results_map == results_map_of(resp.results)
             missing == InputIds(jobs) \ DOMAIN results_map
         IN  [ id \in DOMAIN results_map \cup missing |->
                 IF id \in missing
                 THEN rule_based_match(jobs[LastIndex(jobs, LAMBDA j : j.job_id = id)],
                                       resume_data)
                 ELSE results_map[id] ]

\* the number of rule_based_match calls batch_match_jobs makes: the backfill
\* loop (lines 267-272) up to the job that raises, and one per job in
\* batch_rule_based_match when a handler (276-284) takes over
rule_based_calls(jobs, resume_data, resp) ==
    LET early == \/ build_batch_prompt_raises(jobs)
                 \/ resp.kind # "ok"
                 \/ \E i \in 1..Len(resp.results) : resp.results[i].kind = "other"
        missing == InputIds(jobs) \ DOMAIN results_map_of(resp.results)
        missing_jobs == SelectSeq(jobs, LAMBDA j : j.job_id \in missing)
        raising == {i \in 1..Len(missing_jobs) :
                       rule_based_match_raises(missing_jobs[i], resume_data)}
    IN  IF jobs = <<>> THEN 0
        ELSE IF early THEN Len(jobs)
        ELSE IF raising = {} THEN Len(missing_jobs)
        ELSE (CHOOSE i \in raising : \A k \in raising : i <= k) + Len(jobs)

\* llm_batch_matcher.py create_fallback_match
create_fallback_match(job, reason) ==
    [ job_id |-> job.job_id,
      scores |-> [ technical |-> PyNum(600), experience |-> PyNum(600),
                   culture |-> PyNum(600), total |-> PyNum(600) ],
      classification |-> "FAIR",
      recommendation |-> "CONSIDER",
      matched_skills |-> {},
      skill_gaps |-> {},
      deal_breakers |-> {},
      llm_analysis |-> FALSE,
      llm_model |-> "None",
      fallback_reason |-> reason,
      matched_at |-> "now" ]

\* ------------------------------------------------------------ the resume
\* resume_parser.py parse_resume: the profile of the candidate's resume; it has
\* no 'total_experience_years' key and no 'skills' key
parse_resume ==
    [ all_skills |-> { <<"Python">>, <<"SQL">>, <<"AWS">>, <<"Spark">> },
      primary_skills |-> { <<"Python">>, <<"SQL">>, <<"AWS">>, <<"Spark">> },
      secondary_skills |-> {},
      skills |-> NoList,
      experience_years |-> 4,
      total_experience_years |-> PyMissing ]

\* --------------------------------------------- llm_matcher.py, matcher.py
PRIMARY_SKILLS ==
    { <<"PySpark">>, <<"Databricks">>, <<"AWS">>, <<"Python">>, <<"SQL">>,
      <<"Apache", "Spark">>, <<"Spark">>, <<"Unity", "Catalog">> }

SECONDARY_SKILLS ==
    { <<"Terraform">>, <<"Docker">>, <<"Git">>, <<"Linux">>, <<"Airflow">>, <<"ETL">>,
      <<"Data", "Warehousing">>, <<"Redshift">>, <<"S3">>, <<"Azure">>, <<"Snowflake">> }

\* utils.py extract_skills: re.search(r'\b' + skill + r'\b', text, re.IGNORECASE)
extract_skills(text, skills_list) ==
    {skill \in skills_list : WholeWordIn(LowerText(skill), LowerText(text))}

\* the number the pattern (\d+)\+?\s+years of utils.py captures from a word
\* that is followed by "years"
UtilsYearsCaptured(w) ==
    CASE w = "2" -> 2
      [] w = "5" -> 5
      [] w = "5+" -> 5
      [] w = "7+" -> 7
      [] w = "10+" -> 10
      [] w = "3-5" -> 5
      [] OTHER -> 0

\* utils.py extract_experience_years: the first match, 0 without one
extract_experience_years(text) ==
    LET words == LowerText(text)
        hits == {k \in 1..(Len(words) - 1) :
                    words[k + 1] = "years" /\ UtilsYearsCaptured(words[k]) > 0}
    IN  IF hits = {} THEN 0
        ELSE UtilsYearsCaptured(words[CHOOSE k \in hits : \A z \in hits : k <= z])

\* a Python None where a dict was expected
Nothing == [t |-> "None"]

\* matcher.py match_job (imported as fallback_match_job): None for a job
\* without a description, else the rule-based record; of its scores the
\* experience score (lines 39-53) is kept, with the matched skills and the gaps
match_job(job, resume) ==
    LET job_description == GetText(job.description)
        job_primary_skills == extract_skills(job_description.v, PRIMARY_SKILLS)
        job_secondary_skills == extract_skills(job_description.v, SECONDARY_SKILLS)
        primary_matches == resume.primary_skills \cap job_primary_skills
        secondary_matches == resume.secondary_skills \cap job_secondary_skills
        required_years == extract_experience_years(job_description.v)
        candidate_years == resume.experience_years
        experience_score ==
            IF required_years > 0
            THEN IF candidate_years >= required_years THEN 10
                 ELSE IF candidate_years * 10 >= required_years * 8 THEN 8
                 ELSE IF candidate_years * 10 >= required_years * 6 THEN 5
                 ELSE 2
            ELSE 5
    IN  IF ~Truthy(job_description) THEN Nothing
        ELSE [ t |-> "dict",
               experience |-> experience_score,
               matched_skills |-> primary_matches \cup secondary_matches,
               skill_gaps |-> (job_primary_skills \cup job_secondary_skills)
                                  \ resume.all_skills ]

FREE_MODELS == << "meta-llama/llama-3.3-70b-instruct:free",
                  "deepseek/deepseek-r1-distill-llama-70b:free",
                  "meta-llama/llama-4-maverick:free" >>

\* what one model answers: the request raises, the content holds no JSON, or
\* it parses to a JSON object (value: the number the caller reads from it)
ReplyRaise == [kind |-> "raise", value |-> PyNone]
ReplyText == [kind |-> "text", value |-> PyNone]
ReplyJson(value) == [kind |-> "json", value |-> value]

\* llm_matcher.py LLMJobMatcher._call_llm: the models are asked in list order;
\* the first reply that parses to JSON is returned with the model's name,
\* and the last error when none does
call_llm(replies) ==
    LET winners == {i \in 1..Len(replies) : replies[i].kind = "json"}
    IN  IF winners = {} THEN [error |-> TRUE, model |-> "None", value |-> PyNone]
        ELSE LET i == CHOOSE w \in winners : \A k \in winners : w <= k
             IN  [error |-> FALSE, model |-> FREE_MODELS[i], value |-> replies[i].value]

\* llm_matcher.py LLMJobMatcher.llm_parse_job_requirements: None without an
\* API key, without a description or when every model failed; raises on a
\* None description ('<' in None inside clean_job_description); else the
\* parsed requirements (value: min_experience_years)
llm_parse_job_requirements(job, api_key, replies) ==
    LET description == GetText(job.description)
        result == call_llm(replies)
    IN  IF ~api_key THEN Nothing
        ELSE IF description.t = "None" THEN [t |-> "raised"]
        ELSE IF description.v = <<>> THEN Nothing
        ELSE IF result.error THEN Nothing
        ELSE [t |-> "dict", model |-> result.model, min_experience_years |-> result.value]

\* the record llm_match_job returns, or the exception that leaves it
Returned(llm_analysis, llm_model, fallback_reason, body) ==
    [ t |-> "dict", llm_analysis |-> llm_analysis, llm_model |-> llm_model,
      fallback_reason |-> fallback_reason, body |-> body ]

\* llm_matcher.py llm_match_job, lines 343-441
llm_match_job(job, resume, api_key, parse_replies, match_replies) ==
    LET fallback == match_job(job, resume)
        \* result = fallback_match_job(job, resume); result['llm_analysis'] = False
        \* raises TypeError when match_job returned None
        stamp(reason) ==
            IF fallback.t = "None" THEN [t |-> "raised"]
            ELSE Returned(FALSE, "None", reason, fallback)
        parsed_requirements == llm_parse_job_requirements(job, api_key, parse_replies)
        min_exp == parsed_requirements.min_experience_years
        match_result == call_llm(match_replies)
        body ==
            IF parsed_requirements.t = "raised" THEN [t |-> "raised"]
            ELSE IF parsed_requirements.t = "None"
            THEN stamp("llm_parsing_failed_all_models")
            ELSE IF min_exp.t = "num" /\ min_exp.v > 4
            THEN Returned(TRUE, parsed_requirements.model, "missing",
                          [ t |-> "dict", total |-> PyNum(0), classification |-> "POOR",
                            recommendation |-> "SKIP" ])
            ELSE IF match_result.error
            THEN stamp("llm_matching_failed_all_models")
            \* round(None, 1) raises TypeError
            ELSE IF match_result.value.t = "None" THEN [t |-> "raised"]
            ELSE Returned(TRUE, match_result.model, "missing",
                          [ t |-> "dict", total |-> match_result.value,
                            classification |-> "FAIR", recommendation |-> "CONSIDER" ])
    IN  \* lines 432-441: the handler calls the fallback again
        IF body.t = "raised" THEN stamp("exception") ELSE body

\* ------------------------------------------------- configuration (new.py)
MIN_MATCH_SCORE == 50
SCRAPE_MAX_JOBS == 30
\* database.py close_connection: the close call that really closes
CLOSE_THRESHOLD == 10

\* the executions of scrape_and_match_task that may be in flight
Slots == {1, 2}

VARIABLES
    FORCE_NOTIFY,               \* new.py:66, read from the environment at start
    indexes,                    \* the collections create_indexes has made unique
    jobs_collection,            \* the documents of "jobs", in insertion order
    notifications_collection,   \* the documents of "notifications"
    matches_collection,         \* the documents of "matches"
    client,                     \* MongoDB._client: "None" or "client"
    close_count,                \* MongoDB._close_count
    runs_started,               \* how many runs have begun
    delivered,                  \* job_id -> notifications the webhook accepted
    pc,                         \* per slot: where the run is
    run_no,                     \* per slot: the number of the run
    faults,                     \* per slot: failures injected into the run
    scraped_jobs,               \* per slot: the list scrape_jobs returned
    rejected_jobs,              \* per slot: the jobs the pre-filter rejected
    truly_new_jobs,             \* per slot
    match_results,              \* per slot: job_id -> match result
    idx,                        \* per slot: the per-job loop's position
    stats,                      \* per slot: the RunSummary
    trace,                      \* per slot: the run's calls, in order
    known_at_start,             \* per slot: the job_ids recorded when the run began
    already_seen_count,         \* per slot: the URLs scrape_jobs skipped as processed
    call                        \* a call of batch_match_jobs studied on its own

vars == << FORCE_NOTIFY, indexes, jobs_collection, notifications_collection,
           matches_collection, client, close_count, runs_started, delivered,
           pc, run_no, faults, scraped_jobs, rejected_jobs, truly_new_jobs,
           match_results, idx, stats, trace, known_at_start, already_seen_count,
           call >>

store_vars == << jobs_collection, notifications_collection, matches_collection >>
config_vars == << FORCE_NOTIFY, indexes >>
mongo_vars == << client, close_count >>

\* ----------------------------------------------------- the persisted store
\* collection.find_one({"job_id": job_id}) finds a document
find_one(collection, job_id) ==
    \E i \in 1..Len(collection) : collection[i].job_id = job_id

\* collection.insert_one raises DuplicateKeyError: the collection has the
\* unique index on job_id (new.py create_indexes) and holds the job_id
insert_one_raises(name, collection, job_id) ==
    name \in indexes /\ find_one(collection, job_id)

insert_one(collection, document) == Append(collection, document)

\* collection.update_one({"job_id": id}, {"$set": document}, upsert=True)
update_one_upsert(collection, document) ==
    IF find_one(collection, document.job_id)
    THEN LET first == CHOOSE i \in 1..Len(collection) :
                         /\ collection[i].job_id = document.job_id
                         /\ \A k \in 1..(i - 1) : collection[k].job_id # document.job_id
         IN  [collection EXCEPT ![first] = document]
    ELSE Append(collection, document)

HasDuplicates(collection) ==
    \E i, k \in 1..Len(collection) : i # k /\ collection[i].job_id = collection[k].job_id

RecordedIds == {notifications_collection[i].job_id : i \in 1..Len(notifications_collection)}

\* database.py MongoDB.close_connection: the pair (_client, _close_count) after the call
close_connection(cl, count) ==
    IF count + 1 >= CLOSE_THRESHOLD /\ cl # "None" THEN <<"None", 0>> ELSE <<cl, count + 1>>

\* ------------------------------------------------------------ run summary
InitialStats ==
    [ jobs_scraped |-> 0, new_jobs |-> 0, already_notified |-> 0, matches_found |-> 0,
      notifications_sent |-> 0, below_threshold |-> 0, llm_successes |-> 0,
      llm_fallbacks |-> 0, errors |-> <<>>, top_matches |-> <<>>, status |-> "success",
      pre_filter_passed |-> 0, pre_filter_rejected |-> 0 ]

Event(op, job_id, status) == [op |-> op, job_id |-> job_id, status |-> status]

CanFail(s) == faults[s] < MaxFaults

\* an except clause that records the error but reports the run as partial
Critical_partial(s, st, message) ==
    /\ stats' = [stats EXCEPT ![s] = [st EXCEPT !.errors = Append(st.errors, message),
                                              !.status = "partial"]]
    /\ pc' = [pc EXCEPT ![s] = "finally"]

\* the run leaves the try block by an exception the outer handler catches
\* (new.py 436-440) and goes on to the finally block
Critical(s, st, message) ==
    /\ stats' = [stats EXCEPT ![s] = [st EXCEPT !.errors = Append(st.errors, message),
                                              !.status = "failed"]]
    /\ pc' = [pc EXCEPT ![s] = "finally"]

\* ------------------------------------------------------------------- Init
\* no call of batch_match_jobs is under study
NoCall ==
    [ phase |-> "none", jobs |-> <<>>, resume_data |-> parse_resume,
      resume_after |-> parse_resume,
      resp |-> [kind |-> "raise", results |-> <<>>], result |-> << >> ]

\* the process has started and no run has begun
Idle ==
    /\ FORCE_NOTIFY \in BOOLEAN
    /\ indexes = {}
    /\ jobs_collection = <<>>
    /\ notifications_collection = <<>>
    /\ matches_collection = <<>>
    /\ client = "None"
    /\ close_count = 0
    /\ runs_started = 0
    /\ delivered = [id \in JobIds |-> 0]
    /\ pc = [s \in Slots |-> "idle"]
    /\ run_no = [s \in Slots |-> 0]
    /\ faults = [s \in Slots |-> 0]
    /\ scraped_jobs = [s \in Slots |-> <<>>]
    /\ rejected_jobs = [s \in Slots |-> <<>>]
    /\ truly_new_jobs = [s \in Slots |-> <<>>]
    /\ match_results = [s \in Slots |-> << >>]
    /\ idx = [s \in Slots |-> 0]
    /\ stats = [s \in Slots |-> InitialStats]
    /\ trace = [s \in Slots |-> <<>>]
    /\ known_at_start = [s \in Slots |-> {}]
    /\ already_seen_count = [s \in Slots |-> 0]

Init == Idle /\ call = NoCall

\* -------------------------------------------------- new.py create_indexes
\* The unique indexes are built in the order jobs, notifications, matches; a
\* build over a collection that holds a duplicate raises and ends the call.
indexes_after_create ==
    IF HasDuplicates(jobs_collection) THEN indexes
    ELSE IF HasDuplicates(notifications_collection) THEN indexes \cup {"jobs"}
    ELSE IF HasDuplicates(matches_collection) THEN indexes \cup {"jobs", "notifications"}
    ELSE indexes \cup {"jobs", "notifications", "matches"}

create_indexes ==
    /\ \A s \in Slots : pc[s] \in {"idle", "done", "crashed"}
    /\ indexes_after_create # indexes
    /\ indexes' = indexes_after_create
    /\ client' = "client"
    /\ close_count' = IF client = "None" THEN 0 ELSE close_count
    /\ UNCHANGED << call, already_seen_count, FORCE_NOTIFY, store_vars, runs_started,
                    delivered, pc, run_no, faults,
                    scraped_jobs, rejected_jobs, truly_new_jobs, match_results, idx,
                    stats, trace, known_at_start >>

\* ------------------------------------- scrape_and_match_task, lines 106-146
\* The run begins: fresh statistics, then db_instance = MongoDB(), which
\* connects (and may raise, outside the try block) when there is no client.
\* a run of a behaviour with at most limit runs
StartRunWithin(s, limit) ==
    /\ pc[s] \in {"idle", "done", "crashed"}
    /\ runs_started < limit
    /\ runs_started' = runs_started + 1
    /\ run_no' = [run_no EXCEPT ![s] = runs_started + 1]
    /\ stats' = [stats EXCEPT ![s] = InitialStats]
    /\ trace' = [trace EXCEPT ![s] = <<>>]
    /\ known_at_start' = [known_at_start EXCEPT ![s] = RecordedIds]
    /\ scraped_jobs' = [scraped_jobs EXCEPT ![s] = <<>>]
    /\ rejected_jobs' = [rejected_jobs EXCEPT ![s] = <<>>]
    /\ truly_new_jobs' = [truly_new_jobs EXCEPT ![s] = <<>>]
    /\ match_results' = [match_results EXCEPT ![s] = << >>]
    /\ idx' = [idx EXCEPT ![s] = 0]
    /\ IF client = "None"
       THEN \E ping_ok \in BOOLEAN :
               /\ client' = "client"
               /\ close_count' = 0
               /\ faults' = [faults EXCEPT ![s] = IF ping_ok THEN 0 ELSE 1]
               /\ pc' = [pc EXCEPT ![s] = IF ping_ok THEN "connect" ELSE "crashed"]
       ELSE /\ UNCHANGED mongo_vars
            /\ faults' = [faults EXCEPT ![s] = 0]
            /\ pc' = [pc EXCEPT ![s] = "connect"]
    /\ already_seen_count' = [already_seen_count EXCEPT ![s] = 0]
    /\ UNCHANGED << call, config_vars, store_vars, delivered >>

StartRun(s) == StartRunWithin(s, MaxRuns)

\* ------------------------------------- scrape_and_match_task, lines 148-176
\* The three get_collection calls: each pings, and reconnects (which resets
\* the close counter and may raise) when there is no client or the ping fails.
GetCollections(s) ==
    /\ pc[s] = "connect"
    /\ \E ping_ok \in BOOLEAN :
          /\ ~ping_ok => CanFail(s)
          /\ client' = "client"
          /\ close_count' = IF client = "None" \/ ~ping_ok THEN 0 ELSE close_count
          /\ IF ping_ok
             THEN /\ pc' = [pc EXCEPT ![s] = "scrape"]
                  /\ UNCHANGED << stats, faults >>
             ELSE /\ Critical(s, stats[s], "Critical error")
                  /\ faults' = [faults EXCEPT ![s] = @ + 1]
    /\ UNCHANGED << call, already_seen_count, config_vars,
                    store_vars, runs_started, delivered, run_no,
                    scraped_jobs, rejected_jobs, truly_new_jobs, match_results, idx,
                    trace, known_at_start >>

\* ------------------------------------------------- scraper.py scrape_jobs
Take(seq, n) == SubSeq(seq, 1, Min(Len(seq), n))

\* a scraper without the check of lines 109-120: every URL is scraped
all_job_urls(job_urls, notifications) == job_urls

\* scraper.py 105-120: the URLs whose job_id has no notification record
new_job_urls_of(job_urls, notifications) ==
    SelectSeq(job_urls, LAMBDA u : ~find_one(notifications, extract_linkedin_job_id_from_url(u)))

\* scraper.py 134-153: the details of the pages that loaded, in order
RECURSIVE scrape_details(_, _, _)
scrape_details(urls, k, lost) ==
    IF k > Len(urls) THEN <<>>
    ELSE (IF k \in lost THEN <<>> ELSE <<scrape_job_details(urls[k])>>)
         \o scrape_details(urls, k + 1, lost)

\* scrape_and_match_task, lines 178-196, with the call of scrape_jobs: the
\* search page yields job_urls; the pages in lost fail to load; the browser
\* or the database may raise before scrape_jobs reaches close_connection.
\* a status line that reports every run without jobs as partial
empty_scrape_status_partial(errors) == "partial"

\* new.py line 193: the status of a run whose scraper found no job
empty_scrape_status(errors) == IF errors # <<>> THEN "partial" ELSE "success"

Scrape(s) ==
    /\ pc[s] = "scrape"
    /\ \E job_urls \in SeqsUpTo(Urls, MaxUrls), raises \in BOOLEAN :
          LET urls == Take(job_urls, SCRAPE_MAX_JOBS)
              new_job_urls == new_job_urls_of(urls, notifications_collection)
              \* MongoDB() in scrape_jobs connects when there is no client
              cl == "client"
              cnt == IF client = "None" THEN 0 ELSE close_count
          IN  IF raises
              THEN /\ CanFail(s)
                   /\ faults' = [faults EXCEPT ![s] = @ + 1]
                   /\ client' = cl
                   /\ close_count' = cnt
                   /\ scraped_jobs' = [scraped_jobs EXCEPT ![s] = <<>>]
                   /\ UNCHANGED already_seen_count
                   \* lines 184-194: status 'failed', then the empty list's branch
                   /\ stats' = [stats EXCEPT ![s].errors = Append(@, "Scraping failed"),
                                             ![s].status = "partial"]
                   /\ pc' = [pc EXCEPT ![s] = "finally"]
              ELSE \E lost \in SUBSET (1..Len(new_job_urls)) :
                   /\ faults[s] + Cardinality(lost) <= MaxFaults
                   /\ faults' = [faults EXCEPT ![s] = @ + Cardinality(lost)]
                   /\ already_seen_count' = [already_seen_count EXCEPT
                                               ![s] = Len(urls) - Len(new_job_urls)]
                   /\ client' = close_connection(cl, cnt)[1]
                   /\ close_count' = close_connection(cl, cnt)[2]
                   /\ LET result == scrape_details(new_job_urls, 1, lost)
                      IN  /\ scraped_jobs' = [scraped_jobs EXCEPT ![s] = result]
                          \* line 193 sets the status only for an empty list
                          /\ stats' = [stats EXCEPT ![s].jobs_scraped = Len(result),
                                                    ![s].status =
                                                        IF result # <<>> THEN @
                                                        ELSE empty_scrape_status(stats[s].errors)]
                          /\ pc' = [pc EXCEPT ![s] =
                                       IF result = <<>> THEN "finally" ELSE "filter"]
    /\ UNCHANGED << call, config_vars, store_vars, runs_started, delivered, run_no,
                    rejected_jobs, truly_new_jobs, match_results, idx, trace,
                    known_at_start >>

\* ------------------------------------- scrape_and_match_task, lines 198-267
job_document(job, now) == [job_id |-> job.job_id, url |-> job.url, first_seen |-> now]

\* a dedup loop without the existence check of line 237: always insert
persist_job_always(collection, job, now) ==
    insert_one(collection, job_document(job, now))

\* lines 234-260: the job document is inserted when the job_id is not stored
persist_job(collection, job, now) ==
    IF find_one(collection, job.job_id) THEN collection
    ELSE insert_one(collection, job_document(job, now))

\* lines 227-262: the dedup loop over jobs[k..], from the accumulator
\* acc = [new, already, coll]; it stops before job stop_at (a database call
\* raises there), 0 for never
RECURSIVE dedup_loop(_, _, _, _, _, _)
dedup_loop(jobs, k, acc, notifications, force, now) ==
    IF k > Len(jobs) THEN acc
    ELSE LET job == jobs[k]
             already_notified == find_one(notifications, job.job_id)
         IN  IF ~already_notified \/ force
             THEN dedup_loop(jobs, k + 1,
                      [ new |-> Append(acc.new, job),
                        already |-> acc.already,
                        coll |-> persist_job(acc.coll, job, now) ],
                      notifications, force, now)
             ELSE dedup_loop(jobs, k + 1,
                      [acc EXCEPT !.already = @ + 1], notifications, force, now)

PreFilterDedup(s) ==
    /\ pc[s] = "filter"
    /\ LET filtered == batch_pre_filter_jobs(scraped_jobs[s])
           passed_jobs == IF FORCE_NOTIFY THEN scraped_jobs[s] ELSE filtered[1]
           rejected == IF FORCE_NOTIFY THEN <<>> ELSE filtered[2]
           st == [stats[s] EXCEPT !.pre_filter_passed = Len(passed_jobs),
                                  !.pre_filter_rejected = Len(rejected)]
       IN  /\ rejected_jobs' = [rejected_jobs EXCEPT ![s] = rejected]
           /\ IF passed_jobs = <<>>
              THEN \* lines 222-224: no job passed, return
                   /\ stats' = [stats EXCEPT ![s] = st]
                   /\ pc' = [pc EXCEPT ![s] = "finally"]
                   /\ UNCHANGED << jobs_collection, truly_new_jobs, faults >>
              ELSE \E stop_at \in 0..Len(scraped_jobs[s]) :
                   LET done == IF stop_at = 0 THEN scraped_jobs[s]
                               ELSE SubSeq(scraped_jobs[s], 1, stop_at - 1)
                       acc == dedup_loop(done, 1,
                                  [new |-> <<>>, already |-> 0, coll |-> jobs_collection],
                                  notifications_collection, FORCE_NOTIFY, run_no[s])
                   IN  /\ jobs_collection' = acc.coll
                       /\ IF stop_at = 0
                          THEN /\ truly_new_jobs' = [truly_new_jobs EXCEPT ![s] = acc.new]
                               /\ stats' = [stats EXCEPT ![s] =
                                              [st EXCEPT !.new_jobs = Len(acc.new),
                                                         !.already_notified = acc.already]]
                               /\ pc' = [pc EXCEPT ![s] = "resume"]
                               /\ UNCHANGED faults
                          ELSE /\ CanFail(s)
                               /\ faults' = [faults EXCEPT ![s] = @ + 1]
                               /\ Critical(s, st, "Critical error")
                               /\ UNCHANGED truly_new_jobs
    /\ UNCHANGED << call, already_seen_count, config_vars,
                    notifications_collection, matches_collection, mongo_vars,
                    runs_started, delivered, run_no, scraped_jobs, match_results, idx,
                    trace, known_at_start >>

\* ------------------------------------- scrape_and_match_task, lines 269-277
\* parse_resume returns the profile or raises (the file cannot be read); it
\* never returns an empty value, so the branch of lines 271-277 is not taken.
ParseResume(s) ==
    /\ pc[s] = "resume"
    /\ \E raises \in BOOLEAN :
          IF raises
          THEN /\ CanFail(s)
               /\ faults' = [faults EXCEPT ![s] = @ + 1]
               /\ Critical(s, stats[s], "Critical error: parse_resume")
          ELSE /\ pc' = [pc EXCEPT ![s] = "match"]
               /\ UNCHANGED << faults, stats >>
    /\ UNCHANGED << call, already_seen_count, config_vars,
                    store_vars, mongo_vars, runs_started, delivered, run_no,
                    scraped_jobs, rejected_jobs, truly_new_jobs, match_results, idx,
                    trace, known_at_start >>

\* ------------------------------------- scrape_and_match_task, lines 280-299
BatchMatch(s) ==
    /\ pc[s] = "match"
    /\ IF truly_new_jobs[s] # <<>>
       THEN \E resp \in RunResponses(InputIds(truly_new_jobs[s])) :
               LET results == batch_match_jobs(truly_new_jobs[s], parse_resume, resp)
                   n == Cardinality(DOMAIN results)
               IN  /\ match_results' = [match_results EXCEPT ![s] = results]
                   /\ stats' = [stats EXCEPT
                                  ![s].llm_successes = IF n > 0 THEN n ELSE @,
                                  ![s].llm_fallbacks = Len(truly_new_jobs[s]) - n]
                   /\ trace' = [trace EXCEPT ![s] = Append(@, Event("batch_match", NoId, "called"))]
       ELSE /\ match_results' = [match_results EXCEPT ![s] = << >>]
            /\ UNCHANGED << stats, trace >>
    /\ idx' = [idx EXCEPT ![s] = 1]
    /\ pc' = [pc EXCEPT ![s] = "perjob"]
    /\ UNCHANGED << call, already_seen_count, config_vars,
                    store_vars, mongo_vars, runs_started, delivered, run_no,
                    faults, scraped_jobs, rejected_jobs, truly_new_jobs, known_at_start >>

\* ------------------------------------- scrape_and_match_task, lines 301-422
\* what the outside world does during one iteration of the per-job loop
SendOutcomes == {"success", "error_send_failed", "raise"}

JobInputs ==
    [ upsert_fails : BOOLEAN,        \* matches_collection.update_one raises
      send : SendOutcomes,           \* send_discord_notification's status, or it raises
      insert_fails : BOOLEAN,        \* notifications_collection.insert_one raises
      handler_fails : BOOLEAN ]      \* the handler's insert_one raises

match_document(job, match_data, now) ==
    [ job_id |-> job.job_id, scores |-> match_data.scores,
      classification |-> match_data.classification,
      llm_analysis |-> match_data.llm_analysis, run |-> now ]

notification_document(job, status, now) ==
    [ job_id |-> job.job_id, status |-> status, run |-> now ]

\* One iteration of the loop for job: the statistics, the collections and the
\* calls made (events) after it; delivered: the webhook accepted the
\* notification; escaped: the exception handler itself raised; used: the
\* number of failures of the outside world that took effect.
process_job(job, results, st0, matches, notifications, now, force, inp) ==
    LET job_id == job.job_id
        has == job_id \in DOMAIN results
        match_data == IF has THEN results[job_id]
                      ELSE create_fallback_match(job, "Not in batch response")
        st1 == IF has THEN st0 ELSE [st0 EXCEPT !.llm_fallbacks = @ + 1]
        total == match_data.scores.total
        \* line 315: None >= MIN_MATCH_SCORE raises TypeError
        decide_raises == total.t = "None"
        match_score == IF total.t = "num" THEN total.v ELSE 0
        apply == match_score >= 10 * MIN_MATCH_SCORE \/ force
        stA == [st1 EXCEPT !.matches_found = @ + 1,
                           !.top_matches = Append(@, [job_id |-> job_id, score |-> match_score])]
        stS == [st1 EXCEPT !.below_threshold = @ + 1]
        dup == insert_one_raises("notifications", notifications, job_id)
        out(raised, st, m, n, ev, ok, used) ==
            [ raised |-> raised, stats |-> st, matches |-> m, notifications |-> n,
              events |-> ev, delivered |-> ok, used |-> used ]
        upserted == update_one_upsert(matches, match_document(job, match_data, now))
        ev_upsert == << Event("upsert_match", job_id, "ok") >>
        status == inp.send
        ev_send == ev_upsert \o << Event("send", job_id, status) >>
        send_cost == IF status = "success" THEN 0 ELSE 1
        insert_cost == IF inp.insert_fails THEN 1 ELSE 0
        body ==
            IF decide_raises
            THEN out(TRUE, st1, matches, notifications, <<>>, FALSE, 0)
            ELSE IF apply
            THEN IF inp.upsert_fails
                 THEN out(TRUE, stA, matches, notifications, <<>>, FALSE, 1)
                 ELSE IF status = "raise"
                 THEN out(TRUE, stA, upserted, notifications, ev_send, FALSE, 1)
                 ELSE IF inp.insert_fails \/ dup
                 THEN out(TRUE, stA, upserted, notifications,
                          ev_send \o << Event("insert_raised", job_id, status) >>,
                          status = "success", send_cost + insert_cost)
                 ELSE out(FALSE,
                          IF status = "success"
                          THEN [stA EXCEPT !.notifications_sent = @ + 1]
                          ELSE [stA EXCEPT !.errors = Append(@, "Notification failed")],
                          upserted,
                          insert_one(notifications, notification_document(job, status, now)),
                          ev_send \o << Event("insert_notification", job_id, status) >>,
                          status = "success", send_cost)
            ELSE IF inp.insert_fails \/ dup
                 THEN out(TRUE, stS, matches, notifications,
                          << Event("insert_raised", job_id, "skipped_low_score") >>,
                          FALSE, insert_cost)
                 ELSE out(FALSE, stS, matches,
                          insert_one(notifications,
                                     notification_document(job, "skipped_low_score", now)),
                          << Event("insert_notification", job_id, "skipped_low_score") >>,
                          FALSE, 0)
        \* lines 408-422: the handler
        stE == [body.stats EXCEPT !.errors = Append(@, "Error")]
        handler_cost == IF inp.handler_fails THEN 1 ELSE 0
    IN  IF ~body.raised
        THEN [ escaped |-> FALSE, stats |-> body.stats, matches |-> body.matches,
               notifications |-> body.notifications, events |-> body.events,
               delivered |-> body.delivered, used |-> body.used ]
        ELSE IF inp.handler_fails \/ dup
        THEN [ escaped |-> TRUE, stats |-> stE, matches |-> body.matches,
               notifications |-> body.notifications,
               events |-> body.events \o << Event("handler_raised", job_id, "error") >>,
               delivered |-> body.delivered, used |-> body.used + handler_cost ]
        ELSE [ escaped |-> FALSE, stats |-> stE, matches |-> body.matches,
               notifications |-> insert_one(body.notifications,
                                            notification_document(job, "error", now)),
               events |-> body.events \o << Event("insert_notification", job_id, "error") >>,
               delivered |-> body.delivered, used |-> body.used ]

\* one iteration in a run that meets at most budget failures
ProcessJobWithin(s, budget) ==
    /\ pc[s] = "perjob"
    /\ idx[s] <= Len(truly_new_jobs[s])
    /\ \E inp \in JobInputs :
          LET job == truly_new_jobs[s][idx[s]]
              o == process_job(job, match_results[s], stats[s], matches_collection,
                               notifications_collection, run_no[s], FORCE_NOTIFY, inp)
          IN  /\ faults[s] + o.used <= budget
              /\ faults' = [faults EXCEPT ![s] = @ + o.used]
              /\ matches_collection' = o.matches
              /\ notifications_collection' = o.notifications
              /\ trace' = [trace EXCEPT ![s] = @ \o o.events]
              /\ delivered' = IF o.delivered
                              THEN [delivered EXCEPT ![job.job_id] = @ + 1]
                              ELSE delivered
              /\ IF o.escaped
                 THEN /\ Critical(s, o.stats, "Critical error")
                      /\ UNCHANGED idx
                 ELSE /\ stats' = [stats EXCEPT ![s] = o.stats]
                      /\ idx' = [idx EXCEPT ![s] = @ + 1]
                      /\ UNCHANGED pc
    /\ UNCHANGED << call, already_seen_count, config_vars,
                    jobs_collection, mongo_vars, runs_started, run_no,
                    scraped_jobs, rejected_jobs, truly_new_jobs, match_results,
                    known_at_start >>

ProcessJob(s) == ProcessJobWithin(s, MaxFaults)

\* ------------------------------------- scrape_and_match_task, lines 424-432
\* list.sort(key=score, reverse=True): stable, highest score first
RECURSIVE insert_desc(_, _)
insert_desc(sorted, m) ==
    IF sorted = <<>> THEN <<m>>
    ELSE IF Head(sorted).score >= m.score THEN <<Head(sorted)>> \o insert_desc(Tail(sorted), m)
    ELSE <<m>> \o sorted

RECURSIVE sort_desc(_)
sort_desc(seq) ==
    IF seq = <<>> THEN <<>>
    ELSE insert_desc(sort_desc(SubSeq(seq, 1, Len(seq) - 1)), seq[Len(seq)])

FinishLoop(s) ==
    /\ pc[s] = "perjob"
    /\ idx[s] > Len(truly_new_jobs[s])
    /\ stats' = [stats EXCEPT
                   ![s].top_matches = Take(sort_desc(@), 5),
                   ![s].status = IF stats[s].errors # <<>> THEN "partial" ELSE "success"]
    /\ pc' = [pc EXCEPT ![s] = "finally"]
    /\ UNCHANGED << call, already_seen_count, config_vars,
                    store_vars, mongo_vars, runs_started, delivered, run_no,
                    faults, scraped_jobs, rejected_jobs, truly_new_jobs, match_results,
                    idx, trace, known_at_start >>

\* ------------------------------------- scrape_and_match_task, lines 441-461
\* The finally block: close_connection, then send_summary_notification.
Finally(s) ==
    /\ pc[s] = "finally"
    /\ client' = close_connection(client, close_count)[1]
    /\ close_count' = close_connection(client, close_count)[2]
    /\ trace' = [trace EXCEPT ![s] = Append(@, Event("summary", NoId, stats[s].status))]
    /\ pc' = [pc EXCEPT ![s] = "done"]
    /\ UNCHANGED << call, already_seen_count, config_vars,
                    store_vars, runs_started, delivered, run_no, faults,
                    scraped_jobs, rejected_jobs, truly_new_jobs, match_results, idx,
                    stats, known_at_start >>

\* ------------------------------------------------------- specifications
Step(s) ==
    \/ GetCollections(s)
    \/ Scrape(s)
    \/ PreFilterDedup(s)
    \/ ParseResume(s)
    \/ BatchMatch(s)
    \/ ProcessJob(s)
    \/ FinishLoop(s)
    \/ Finally(s)

\* runs one after the other (the scheduler's expected use)
Next ==
    \/ create_indexes
    \/ StartRun(1)
    \/ Step(1)

Spec == Init /\ [][Next]_vars

\* Runs that may overlap (the two scheduler jobs each allow one instance, so
\* a run of one may begin while a run of the other is in flight), in a quiet
\* world: nothing fails and a search yields at most MaxOverlapJobs new jobs.
Quiet ==
    \A s \in Slots : faults'[s] = 0 /\ Len(scraped_jobs'[s]) <= MaxOverlapJobs

NextOverlap ==
    \/ create_indexes
    \/ \E s \in Slots : StartRun(s) /\ Quiet
    \/ \E s \in Slots : Step(s) /\ Quiet

SpecOverlap == Init /\ [][NextOverlap]_vars

\* One run in which the store may stay unreachable for a while during the
\* per-job loop (up to MaxStoreFaults failing calls) and nothing else fails.
Steady == \A s \in Slots : faults'[s] <= faults[s]

NextOutage ==
    \/ create_indexes
    \/ StartRun(1) /\ runs_started = 0 /\ Steady
    \/ /\ \/ GetCollections(1)
           \/ Scrape(1)
           \/ PreFilterDedup(1)
           \/ ParseResume(1)
           \/ BatchMatch(1)
           \/ FinishLoop(1)
           \/ Finally(1)
       /\ Steady
    \/ ProcessJobWithin(1, MaxStoreFaults)

SpecOutage == Init /\ [][NextOutage]_vars

\* ------------------------------------------- __main__ and setup_scheduler
\* The process in local mode, in a quiet world. The first run is the startup
\* run of lines 574-580, made by the main thread; it ends before
\* setup_scheduler is called. From then on slot 1 holds the runs of the job
\* 'morning_scrape_and_match' and slot 2 those of 'hourly_scrape_and_match':
\* max_instances=1 is kept per job, so a trigger starts a run of its job when
\* no run of that same job is in flight.
StartupRun ==
    /\ runs_started = 0
    /\ StartRunWithin(1, MaxSchedulerRuns)

ScheduledRun(s) ==
    /\ runs_started >= 1
    /\ runs_started = 1 => pc[1] \in {"done", "crashed"}
    /\ StartRunWithin(s, MaxSchedulerRuns)

NextScheduler ==
    \/ StartupRun /\ Quiet
    \/ \E s \in Slots : ScheduledRun(s) /\ Quiet
    \/ \E s \in Slots : Step(s) /\ Quiet

\* new.py line 66: FORCE_NOTIFY is off unless the environment sets it
InitScheduler == Init /\ FORCE_NOTIFY = FALSE

SpecScheduler == InitScheduler /\ [][NextScheduler]_vars

\* ------------------------------------------------ llm_match_job on its own
ParseReplies == {ReplyRaise, ReplyText, ReplyJson(PyNum(3)), ReplyJson(PyNum(6))}
MatchReplies == {ReplyRaise, ReplyText, ReplyJson(PyNum(850)), ReplyJson(PyNone)}

\* the job dicts a caller may pass: with a description, with an empty one,
\* with None, and without the key
LlmJobs ==
    { [j EXCEPT !.description = d] :
          j \in {scrape_job_details(u) : u \in {v \in Urls : v.path = "/jobs/view/1"}},
          d \in { Str(<<"Python", "SQL", "AWS">>),
                  Str(<<"5+", "years", "of", "Python", "and", "Kafka">>),
                  Str(<<>>), NoneText, MissingText } }

InitLlm ==
    /\ Idle
    /\ FORCE_NOTIFY = FALSE
    /\ call \in { [ phase |-> "llm_ready", jobs |-> <<j>>, resume_data |-> parse_resume,
                    resume_after |-> parse_resume, resp |-> NoCall.resp, result |-> << >> ] :
                  j \in LlmJobs }

CallLlmMatchJob ==
    /\ call.phase = "llm_ready"
    /\ \E api_key \in BOOLEAN,
          parse_replies \in [1..Len(FREE_MODELS) -> ParseReplies],
          match_replies \in [1..Len(FREE_MODELS) -> MatchReplies] :
          call' = [call EXCEPT
                     !.phase = "llm_done",
                     !.result = [ api_key |-> api_key,
                                  parse_replies |-> parse_replies,
                                  match_replies |-> match_replies,
                                  outcome |-> llm_match_job(call.jobs[1], call.resume_data,
                                                  api_key, parse_replies, match_replies) ]]
    /\ UNCHANGED << already_seen_count, config_vars, store_vars, mongo_vars, runs_started,
                    delivered, pc, run_no, faults, scraped_jobs, rejected_jobs, truly_new_jobs, match_results,
                    idx, stats, trace, known_at_start >>

NextLlm == CallLlmMatchJob

SpecLlm == InitLlm /\ [][NextLlm]_vars

\* A process that has been up for a while: each earlier run whose scrape
\* raised made one close_connection call (new.py line 443) and stored nothing,
\* so after k of them the client is connected and the counter stands at k.
\* One more run follows.
InitClose ==
    /\ FORCE_NOTIFY \in BOOLEAN
    /\ indexes = {}
    /\ jobs_collection = <<>>
    /\ notifications_collection = <<>>
    /\ matches_collection = <<>>
    /\ client = "client"
    /\ close_count \in 0..(CLOSE_THRESHOLD - 1)
    /\ runs_started = 0
    /\ delivered = [id \in JobIds |-> 0]
    /\ pc = [s \in Slots |-> "idle"]
    /\ run_no = [s \in Slots |-> 0]
    /\ faults = [s \in Slots |-> 0]
    /\ scraped_jobs = [s \in Slots |-> <<>>]
    /\ rejected_jobs = [s \in Slots |-> <<>>]
    /\ truly_new_jobs = [s \in Slots |-> <<>>]
    /\ match_results = [s \in Slots |-> << >>]
    /\ idx = [s \in Slots |-> 0]
    /\ stats = [s \in Slots |-> InitialStats]
    /\ trace = [s \in Slots |-> <<>>]
    /\ known_at_start = [s \in Slots |-> {}]
    /\ already_seen_count = [s \in Slots |-> 0]
    /\ call = NoCall

NextClose ==
    \/ create_indexes
    \/ StartRun(1) /\ runs_started = 0
    \/ Step(1)

SpecClose == InitClose /\ [][NextClose]_vars

\* ------------------------------------------- batch_match_jobs on its own
\* the job dicts a caller may pass: the scraper's, and the same with a
\* description of None
BatchJobs == Jobs \cup { [j EXCEPT !.description = NoneText] : j \in Jobs }

\* the profiles parse_resume returns: with skills found, and with none found
BatchProfiles ==
    { parse_resume,
      [parse_resume EXCEPT !.all_skills = {}, !.primary_skills = {}] }

InitBatch ==
    /\ Idle
    /\ FORCE_NOTIFY = FALSE
    /\ call \in { [ phase |-> "ready", jobs |-> jobs, resume_data |-> profile,
                    resume_after |-> profile, resp |-> NoCall.resp, result |-> << >> ] :
                  jobs \in SeqsUpTo(BatchJobs, MaxUrls), profile \in BatchProfiles }

\* batch_match_jobs(jobs, resume_data) runs; the service answers resp
CallBatchMatch ==
    /\ call.phase = "ready"
    /\ \E resp \in Responses(InputIds(call.jobs)) :
          call' = [call EXCEPT !.phase = "returned",
                               !.resp = resp,
                               !.resume_after = resume_after_calls(call.resume_data,
                                                    rule_based_calls(call.jobs, call.resume_data, resp)),
                               !.result = batch_match_jobs(call.jobs, call.resume_data, resp)]
    /\ UNCHANGED << already_seen_count, config_vars, store_vars, mongo_vars, runs_started,
                    delivered, pc, run_no, faults, scraped_jobs, rejected_jobs, truly_new_jobs, match_results,
                    idx, stats, trace, known_at_start >>

\* batch_rule_based_match(jobs, resume_data) runs on its own
CallBatchRuleBased ==
    /\ call.phase = "ready"
    /\ call' = [call EXCEPT !.phase = "rule_batch_returned",
                            !.resume_after = resume_after_calls(call.resume_data, Len(call.jobs)),
                            !.result = batch_rule_based_match(call.jobs, call.resume_data)]
    /\ UNCHANGED << already_seen_count, config_vars, store_vars, mongo_vars, runs_started,
                    delivered, pc, run_no, faults, scraped_jobs, rejected_jobs, truly_new_jobs, match_results,
                    idx, stats, trace, known_at_start >>

NextBatch == CallBatchMatch \/ CallBatchRuleBased

SpecBatch == InitBatch /\ [][NextBatch]_vars

\* ------------------------------------------- rule_based_match on its own
\* the titles and descriptions a job dict may carry: a text, the empty text,
\* None, or no such key
RuleTitles ==
    { Str(<<"Data", "Engineer">>), Str(<<"Senior", "Chef">>), Str(<<>>), NoneText, MissingText }

RuleDescriptions ==
    { Str(<<"Python", "SQL", "AWS">>), Str(<<"cooking">>),
      Str(<<"5+", "years", "of", "Python", "and", "Kafka">>),
      Str(<<"Python", "SQL", "AWS", "Kafka">>), Str(<<"Kafka", "Hadoop">>),
      Str(<<"Python", "SQL", "AWS", "unpaid", "internship">>),
      Str(<<"Kafka", "Hadoop", "must", "relocate">>),
      Str(<<"PySpark", "and", "MySQL">>),
      Str(<<>>), NoneText, MissingText }

RuleJobs ==
    { [j EXCEPT !.job_title = ti, !.description = d] :
          j \in {scrape_job_details(u) : u \in {v \in Urls : v.path = "/jobs/view/1"}},
          ti \in RuleTitles, d \in RuleDescriptions }

\* the resumes a caller may pass: parse_resume's, one with no skills at all,
\* one that carries the key 'total_experience_years', and one in the layout
\* lines 305-308 provide for: no 'all_skills', the skills under 'skills'
RuleProfiles ==
    { parse_resume,
      [parse_resume EXCEPT !.all_skills = {}, !.primary_skills = {}],
      [parse_resume EXCEPT !.total_experience_years = PyNum(4)],
      [parse_resume EXCEPT !.all_skills = {}, !.skills = PyList(<< <<"Python">> >>),
                           !.primary_skills = { <<"SQL">> }] }

InitRule ==
    /\ Idle
    /\ FORCE_NOTIFY = FALSE
    /\ call \in { [ phase |-> "rule_ready", jobs |-> <<j>>, resume_data |-> profile,
                    resume_after |-> profile, resp |-> NoCall.resp, result |-> << >> ] :
                  j \in RuleJobs, profile \in RuleProfiles }

\* rule_based_match(job, resume_data) runs: it returns a match result or raises
CallRuleBasedMatch ==
    /\ call.phase = "rule_ready"
    /\ LET job == call.jobs[1]
       IN  IF rule_based_match_raises(job, call.resume_data)
           THEN call' = [call EXCEPT !.phase = "rule_raised",
                                     !.resume_after = resume_after_match(call.resume_data)]
           ELSE call' = [call EXCEPT !.phase = "rule_returned",
                                     !.resume_after = resume_after_match(call.resume_data),
                                     !.result = [id \in {job.job_id} |->
                                                   rule_based_match(job, call.resume_data)]]
    /\ UNCHANGED << already_seen_count, config_vars, store_vars, mongo_vars, runs_started,
                    delivered, pc, run_no, faults, scraped_jobs, rejected_jobs, truly_new_jobs, match_results,
                    idx, stats, trace, known_at_start >>

\* a call that raised instead of returning a value
PyRaised == [t |-> "raised", v |-> 0]

\* the three extractors applied to one text: extract_skills_from_text guards
\* against an empty value (line 62), the other two call text.lower() at once
\* (lines 105 and 127), which raises AttributeError on None
extractor_outcomes(text) ==
    [ skills |-> extract_skills_from_text(text),
      years |-> IF text.t = "None" THEN PyRaised
                ELSE PyNum(extract_years_of_experience(text)),
      level |-> IF text.t = "None" THEN "raised"
                ELSE detect_experience_level(text) ]

\* the extractors run on the description of the job
CallExtractors ==
    /\ call.phase = "rule_ready"
    /\ call' = [call EXCEPT !.phase = "extracted",
                            !.result = extractor_outcomes(GetText(call.jobs[1].description))]
    /\ UNCHANGED << already_seen_count, config_vars, store_vars, mongo_vars, runs_started,
                    delivered, pc, run_no, faults, scraped_jobs, rejected_jobs, truly_new_jobs, match_results,
                    idx, stats, trace, known_at_start >>

\* calculate_experience_score(resume_years, required_years, job_level) runs
CallExperienceScore ==
    /\ call.phase = "rule_ready"
    /\ \E resume_years \in 0..MaxYears, required_years \in 0..MaxYears,
          job_level \in {EXPERIENCE_LEVELS[i] : i \in 1..Len(EXPERIENCE_LEVELS)} :
          call' = [call EXCEPT !.phase = "scored",
                               !.result = [ resume_years |-> resume_years,
                                            required_years |-> required_years,
                                            job_level |-> job_level,
                                            score |-> calculate_experience_score(
                                                          resume_years, required_years, job_level) ]]
    /\ UNCHANGED << already_seen_count, config_vars, store_vars, mongo_vars, runs_started,
                    delivered, pc, run_no, faults, scraped_jobs, rejected_jobs, truly_new_jobs, match_results,
                    idx, stats, trace, known_at_start >>

\* filters.py batch_pre_filter_jobs, lines 101-113: the job dict after the
\* batch filter has written its verdict into it
annotated(job, filter_result) ==
    [ job_id |-> job.job_id, url |-> job.url, job_title |-> job.job_title,
      description |-> job.description,
      filter_metadata |-> IF filter_result.passed
                          THEN [ skill_matches |-> filter_result.skill_matches,
                                 skill_count |-> filter_result.skill_count,
                                 title_match |-> filter_result.title_match ]
                          ELSE "missing",
      rejection_reason |-> IF filter_result.passed THEN "missing"
                           ELSE filter_result.reason.text ]

\* pre_filter_job(job) runs, and runs again on the job once the batch filter
\* has annotated it
CallPreFilter ==
    /\ call.phase = "rule_ready"
    /\ LET job == call.jobs[1]
           first == pre_filter_job(job)
       IN  call' = [call EXCEPT !.phase = "filtered",
                                !.result = [ first |-> first,
                                             second |-> pre_filter_job(annotated(job, first)) ]]
    /\ UNCHANGED << already_seen_count, config_vars, store_vars, mongo_vars, runs_started,
                    delivered, pc, run_no, faults, scraped_jobs, rejected_jobs, truly_new_jobs, match_results,
                    idx, stats, trace, known_at_start >>

\* one listed URL goes through the scraper: the id of the pre-scrape check
\* (scraper.py 112) and the job dict scraped from the page (llm_scraper.py 434)
CallJobId ==
    /\ call.phase = "rule_ready"
    /\ \E job_url \in Urls :
          call' = [call EXCEPT !.phase = "identified",
                               !.result = [ job_url |-> job_url,
                                            job_id |-> extract_linkedin_job_id_from_url(job_url),
                                            job |-> scrape_job_details(job_url) ]]
    /\ UNCHANGED << already_seen_count, config_vars, store_vars, mongo_vars, runs_started,
                    delivered, pc, run_no, faults, scraped_jobs, rejected_jobs, truly_new_jobs, match_results,
                    idx, stats, trace, known_at_start >>

NextRule ==
    \/ CallRuleBasedMatch
    \/ CallExtractors
    \/ CallExperienceScore
    \/ CallPreFilter
    \/ CallJobId

SpecRule == InitRule /\ [][NextRule]_vars

\* ================================================================ claims
\* the calls of operation op for job_id in a run's trace
Calls(tr, op, job_id) ==
    {i \in 1..Len(tr) : tr[i].op = op /\ tr[i].job_id = job_id}

\* the job_ids the calls of a run's trace are about
Touched(tr) == {tr[i].job_id : i \in 1..Len(tr)}

IdsOf(jobs) == {jobs[i].job_id : i \in 1..Len(jobs)}

Ended(s) == pc[s] \in {"done", "crashed"}

\* C1: every invocation of scrape_and_match_task that has ended, wherever it
\* stopped, has called send_summary_notification exactly once.
C1_ExactlyOneSummary ==
    \A s \in Slots : Ended(s) => Cardinality(Calls(trace[s], "summary", NoId)) = 1

\* C2: with FORCE_NOTIFY off, a job the pre-filter rejected is not among the
\* jobs passed to batch_match_jobs and no match is stored, no notification
\* sent and no notification record written for it in that run.
C2_RejectedNeverProcessed ==
    ~FORCE_NOTIFY =>
        \A s \in Slots :
            /\ IdsOf(rejected_jobs[s]) \cap IdsOf(truly_new_jobs[s]) = {}
            /\ IdsOf(rejected_jobs[s]) \cap Touched(trace[s]) = {}

\* C3: within one run send_discord_notification is called at most once for
\* any job_id.
C3_AtMostOneSendPerJob ==
    \A s \in Slots : \A id \in JobIds : Cardinality(Calls(trace[s], "send", id)) <= 1

\* C4: in runs that follow one another, a job_id that had a notification
\* record when the run began is not among the run's new jobs and no
\* notification is sent for it, whatever FORCE_NOTIFY is.
C4_RecordedJobExcludedLater ==
    \A s \in Slots : \A id \in known_at_start[s] :
        /\ id \notin IdsOf(truly_new_jobs[s])
        /\ Calls(trace[s], "send", id) = {}

\* a second run, under FORCE_NOTIFY, has ended whose search page listed a job
\* recorded by the first run, and the job was notified once in all
C4_Witness ==
    /\ FORCE_NOTIFY
    /\ run_no[1] = 2 /\ pc[1] = "done"
    /\ already_seen_count[1] >= 1
    /\ \E id \in known_at_start[1] : delivered[id] = 1

\* C5: when the processing of one job raises, the exception stays inside the
\* loop (an error record is written) and the loop goes on: a run that entered
\* the per-job loop leaves it only past its last job.
C5_LoopSurvivesJobFailure ==
    \A s \in Slots :
        (pc[s] \in {"finally", "done"} /\ idx[s] >= 1) => idx[s] > Len(truly_new_jobs[s])

\* C6: the notifications collection holds at most one record per job_id.
C6_OneRecordPerJob == ~HasDuplicates(notifications_collection)

\* C7: when runs overlap, a job is delivered at most once and has at most one
\* notification record and one job document.
C7_OverlapSingleDelivery ==
    /\ \A id \in JobIds : delivered[id] <= 1
    /\ ~HasDuplicates(notifications_collection)
    /\ ~HasDuplicates(jobs_collection)

\* C8: in runs that follow one another the jobs collection holds at most one
\* document per job_id, and no step changes or removes a stored document
\* (first_seen included): the collection only grows at its end.
C8_PersistIdempotent ==
    /\ []~HasDuplicates(jobs_collection)
    /\ [][ /\ Len(jobs_collection') >= Len(jobs_collection)
           /\ SubSeq(jobs_collection', 1, Len(jobs_collection)) = jobs_collection ]_vars

\* a later run takes as new a job whose document an earlier run stored, and
\* the document still carries the earlier run's first_seen
C8_Witness ==
    /\ pc[1] = "resume" /\ run_no[1] = 2
    /\ \E i \in 1..Len(truly_new_jobs[1]) : \E k \in 1..Len(jobs_collection) :
          /\ jobs_collection[k].job_id = truly_new_jobs[1][i].job_id
          /\ jobs_collection[k].first_seen = 1

\* C9: for a non-empty job list and any answer of the service,
\* batch_match_jobs returns a map with an entry for every input job_id.
C9_BatchComplete ==
    (call.phase = "returned" /\ call.jobs # <<>>) =>
        IdsOf(call.jobs) \subseteq DOMAIN call.result

\* the ids the items of a "results" array carry
AnsweredIds(results) ==
    {results[i].job_id : i \in {k \in 1..Len(results) : results[k].kind = "dict"}} \ {NoId}

\* the service answered for one of two input jobs, and the call returned
\* entries for both
C9_Witness ==
    /\ call.phase = "returned" /\ call.resp.kind = "ok"
    /\ Cardinality(IdsOf(call.jobs)) = 2
    /\ Cardinality(IdsOf(call.jobs) \cap AnsweredIds(call.resp.results)) = 1
    /\ IdsOf(call.jobs) \subseteq DOMAIN call.result

\* the service was called and answered with an object holding a "results" array
ValidTopLevel ==
    /\ call.phase = "returned" /\ call.jobs # <<>>
    /\ ~build_batch_prompt_raises(call.jobs)
    /\ call.resp.kind = "ok"

WellFormedItems ==
    \A i \in 1..Len(call.resp.results) : call.resp.results[i].kind = "dict"

\* every answered input job keeps a service result and every other input job
\* has the rule-based matcher's result for that job
PartialSuccessKept ==
    \A i \in 1..Len(call.jobs) :
        LET id == call.jobs[i].job_id
        IN  IF id \in AnsweredIds(call.resp.results)
            THEN /\ id \in DOMAIN call.result
                 /\ call.result[id].llm_analysis = TRUE
            ELSE /\ id \in DOMAIN call.result
                 /\ call.result[id].llm_analysis = FALSE
                 /\ \E k \in 1..Len(call.jobs) :
                       /\ call.jobs[k].job_id = id
                       /\ call.result[id] = rule_based_match(call.jobs[k], call.resume_data)

C11_FullFallbackOnFailure ==
    ( /\ call.phase = "returned" /\ call.jobs # <<>>
      /\ call.resp.kind \in {"raise", "bad_json", "no_results_key"} ) =>
        /\ DOMAIN call.result = IdsOf(call.jobs)
        /\ \A id \in IdsOf(call.jobs) : call.result[id].llm_analysis = FALSE

\* the text was not JSON and two different jobs got rule-based results
C11_Witness ==
    /\ call.phase = "returned" /\ call.resp.kind = "bad_json"
    /\ Cardinality(IdsOf(call.jobs)) = 2
    /\ \A id \in IdsOf(call.jobs) :
          id \in DOMAIN call.result /\ call.result[id].llm_analysis = FALSE

\* the result is what the rule-based matcher yields for an input job with
\* this id: rule_based_match's record or batch_rule_based_match's minimal one
FromRuleBased(id, result) ==
    \E k \in 1..Len(call.jobs) :
        /\ call.jobs[k].job_id = id
        /\ \/ result = minimal_fallback(call.jobs[k])
           \/ /\ ~rule_based_match_raises(call.jobs[k], call.resume_data)
              /\ result = rule_based_match(call.jobs[k], call.resume_data)

\* the result is an item of the service response with this id, with whatever
\* provenance it carries
FromService(id, result) ==
    /\ call.resp.kind = "ok"
    /\ \E i \in 1..Len(call.resp.results) :
          /\ call.resp.results[i].kind = "dict"
          /\ call.resp.results[i].job_id = id
          /\ result.scores.total = call.resp.results[i].total
          /\ result.classification = call.resp.results[i].classification
          /\ result.recommendation = "APPLY"

\* C12: every result of the returned map carries the provenance of its
\* origin: a result taken from the service response has llm_analysis = true
\* and the model identifier, a result of the rule-based matcher has
\* llm_analysis = false and llm_model null, and each has a matched_at.
C12_ProvenanceMatchesOrigin ==
    call.phase = "returned" =>
        \A id \in DOMAIN call.result :
            LET result == call.result[id]
            IN  /\ result.matched_at # "missing"
                /\ \/ /\ FromService(id, result)
                      /\ result.llm_analysis = TRUE /\ result.llm_model = LLM_MODEL
                   \/ /\ FromRuleBased(id, result)
                      /\ result.llm_analysis = FALSE /\ result.llm_model = "None"

\* one returned map holds a service result and a rule-based result, the
\* latter for a job the response missed
C12_Witness ==
    /\ call.phase = "returned" /\ call.resp.kind = "ok"
    /\ \E a, b \in IdsOf(call.jobs) :
          /\ a \in AnsweredIds(call.resp.results) /\ FromService(a, call.result[a])
          /\ call.result[a].llm_model = LLM_MODEL
          /\ b \notin AnsweredIds(call.resp.results) /\ FromRuleBased(b, call.result[b])
          /\ call.result[b].llm_model = "None"

\* C13: rule_based_match never raises, whatever the job and the resume (a
\* title or description that is empty, missing or None, a resume with no
\* skills), and the result it returns has a total within 0..100 and a
\* classification among POOR, FAIR, GOOD, EXCELLENT
C13_RuleBasedMatchTotal ==
    /\ call.phase # "rule_raised"
    /\ call.phase = "rule_returned" =>
          \A id \in DOMAIN call.result :
              /\ call.result[id].scores.total.t = "num"
              /\ call.result[id].scores.total.v \in 0..1000
              /\ call.result[id].classification \in {"POOR", "FAIR", "GOOD", "EXCELLENT"}

\* C14: every result batch_match_jobs returns from the service response has
\* been validated: its total is a number within 0..100 and its classification
\* is one of POOR, FAIR, GOOD, EXCELLENT, so that the threshold comparison on
\* scores.total is defined
C14_ServiceResultsValidated ==
    call.phase = "returned" =>
        \A id \in DOMAIN call.result :
            call.result[id].llm_analysis =>
                /\ call.result[id].scores.total.t = "num"
                /\ call.result[id].scores.total.v \in 0..1000
                /\ call.result[id].classification \in {"POOR", "FAIR", "GOOD", "EXCELLENT"}

\* the run of slot s has recorded the error message
HasError(s, message) == \E i \in 1..Len(stats[s].errors) : stats[s].errors[i] = message

\* the statuses of the summaries the run of slot s has emitted
SummaryStatuses(s) == {trace[s][i].status : i \in Calls(trace[s], "summary", NoId)}

\* C15: when scrape_jobs raises, the run records the error, performs no
\* dedup, pre-filter, matching or per-job notification, and the summary it
\* emits carries status 'failed'
C15_ScrapeFailureEndsFailed ==
    \A s \in Slots :
        HasError(s, "Scraping failed") =>
            /\ truly_new_jobs[s] = <<>> /\ rejected_jobs[s] = <<>>
            /\ Touched(trace[s]) \subseteq {NoId}
            /\ \A i \in 1..Len(trace[s]) : trace[s][i].op = "summary"
            /\ stats[s].status = "failed"
            /\ SummaryStatuses(s) \subseteq {"failed"}

\* C16: if the resume cannot be read (parse_resume raises; it never returns
\* an empty value), the run stops before batch matching, sends no per-job
\* notification, writes no match or notification record, and its summary has
\* status 'failed'
C16_ResumeFailureStopsRun ==
    \A s \in Slots :
        HasError(s, "Critical error: parse_resume") =>
            /\ stats[s].status = "failed"
            /\ match_results[s] = << >>
            /\ \A i \in 1..Len(trace[s]) : trace[s][i].op = "summary"
            /\ SummaryStatuses(s) \subseteq {"failed"}

C16_Witness ==
    \E s \in Slots :
        /\ pc[s] = "done"
        /\ HasError(s, "Critical error: parse_resume")
        /\ truly_new_jobs[s] # <<>>
        /\ SummaryStatuses(s) = {"failed"}

\* the total of the match data the loop uses for a job: the batch result's,
\* or the fallback's when the batch has none for it
TotalFor(s, job) ==
    IF job.job_id \in DOMAIN match_results[s]
    THEN match_results[s][job.job_id].scores.total
    ELSE create_fallback_match(job, "Not in batch response").scores.total

\* the events a step has added to the trace of slot s
NewEvents(s) == SubSeq(trace'[s], Len(trace[s]) + 1, Len(trace'[s]))

\* the step is one iteration of the per-job loop of slot s
LoopIteration(s) ==
    /\ pc[s] = "perjob" /\ idx[s] <= Len(truly_new_jobs[s])
    /\ <<stats[s], trace[s], idx[s], pc[s]>> # <<stats'[s], trace'[s], idx'[s], pc'[s]>>

\* C17: for each new job the APPLY path is taken exactly when its total is
\* >= MIN_MATCH_SCORE or FORCE_NOTIFY is set, and on that path the match is
\* upserted, then the notification is sent, then the notification record is
\* inserted with the status the send returned
C17_ApplyPathDecisionAndOrder ==
    [][ \A s \in Slots :
          LoopIteration(s) =>
            LET job == truly_new_jobs[s][idx[s]]
                total == TotalFor(s, job)
                qualifies == FORCE_NOTIFY \/ (total.t = "num" /\ total.v >= 10 * MIN_MATCH_SCORE)
                applied == stats'[s].matches_found = stats[s].matches_found + 1
                ev == NewEvents(s)
            IN  /\ applied <=> qualifies
                /\ \A i \in 1..Len(ev) :
                      /\ ev[i].op = "send" => i = 2 /\ ev[1].op = "upsert_match"
                      /\ (ev[i].op = "insert_notification" /\ applied /\ ev[i].status # "error") =>
                             i = 3 /\ ev[2].op = "send" /\ ev[2].status = ev[i].status
      ]_vars

\* the notification records of job_id that carry the status
RecordsWith(job_id, status) ==
    {k \in 1..Len(notifications_collection) :
        /\ notifications_collection[k].job_id = job_id
        /\ notifications_collection[k].status = status}

\* C18: with FORCE_NOTIFY off, a new job whose total is below MIN_MATCH_SCORE
\* gets exactly one notification record with status 'skipped_low_score', no
\* notification is sent and no match document written for it in that run,
\* and no later run takes it as new (stated for runs in which nothing of the
\* outside world failed)
C18_LowScoreSkippedOnce ==
    ~FORCE_NOTIFY =>
        \A s \in Slots :
            (pc[s] = "done" /\ faults[s] = 0) =>
                /\ \A i \in 1..Len(truly_new_jobs[s]) :
                      LET job == truly_new_jobs[s][i]
                          total == TotalFor(s, job)
                      IN  (total.t = "num" /\ total.v < 10 * MIN_MATCH_SCORE) =>
                              /\ Cardinality(RecordsWith(job.job_id, "skipped_low_score")) = 1
                              /\ Calls(trace[s], "send", job.job_id) = {}
                              /\ Calls(trace[s], "upsert_match", job.job_id) = {}
                /\ \A id \in known_at_start[s] : id \notin IdsOf(truly_new_jobs[s])

\* C19: when send_discord_notification returns a non-success status for a
\* job, the run is not aborted: a notification record with that status is
\* written for the job, the failure is added to the run's errors,
\* notifications_sent is not incremented and the loop goes on to the next job
C19_SendFailureRecordedAndSurvived ==
    [][ \A s \in Slots :
          ( /\ LoopIteration(s)
            /\ \E i \in 1..Len(NewEvents(s)) :
                  NewEvents(s)[i].op = "send" /\ NewEvents(s)[i].status = "error_send_failed" ) =>
            LET job == truly_new_jobs[s][idx[s]]
            IN  /\ notifications_collection' =
                      Append(notifications_collection,
                             notification_document(job, "error_send_failed", run_no[s]))
                /\ stats'[s].errors = Append(stats[s].errors, "Notification failed")
                /\ stats'[s].notifications_sent = stats[s].notifications_sent
                /\ pc'[s] = "perjob" /\ idx'[s] = idx[s] + 1
      ]_vars

\* C20: with FORCE_NOTIFY set, batch_pre_filter_jobs is not applied (no job is
\* rejected, every scraped job counts as passed) and every new job the loop
\* has handled took the APPLY path, whatever its score
C20_ForceNotifyBypassesFilterAndThreshold ==
    FORCE_NOTIFY =>
        \A s \in Slots :
            /\ rejected_jobs[s] = <<>>
            /\ stats[s].pre_filter_rejected = 0
            /\ pc[s] \in {"resume", "match", "perjob"} =>
                  stats[s].pre_filter_passed = Len(scraped_jobs[s])
            /\ pc[s] = "perjob" =>
                  /\ stats[s].matches_found = idx[s] - 1
                  /\ stats[s].below_threshold = 0

\* the records a run has written carry its number
WrittenBy(n) ==
    {i \in 1..Len(jobs_collection) : jobs_collection[i].first_seen = n}
    \cup {i \in 1..Len(matches_collection) : matches_collection[i].run = n}
    \cup {i \in 1..Len(notifications_collection) : notifications_collection[i].run = n}

\* the run of slot s got an empty list from the scraper, which did not raise
EmptyScrape(s) ==
    /\ pc[s] \in {"finally", "done"}
    /\ stats[s].jobs_scraped = 0 /\ scraped_jobs[s] = <<>>
    /\ stats[s].errors = <<>>

\* C21: an empty scrape result with no scrape error goes straight to the
\* summary with status 'success': the pre-filter and the matcher are not run
\* and no job, match or notification record is written
C21_EmptyScrapeEndsSuccess ==
    \A s \in Slots :
        EmptyScrape(s) =>
            /\ stats[s].status = "success"
            /\ SummaryStatuses(s) \subseteq {"success"}
            /\ \A i \in 1..Len(trace[s]) : trace[s][i].op = "summary"
            /\ rejected_jobs[s] = <<>> /\ truly_new_jobs[s] = <<>>
            /\ stats[s].pre_filter_passed = 0 /\ stats[s].pre_filter_rejected = 0
            /\ match_results[s] = << >>
            /\ WrittenBy(run_no[s]) = {}

\* a second run has ended whose search page listed only a job the first run
\* had recorded
C21_Witness ==
    \E s \in Slots :
        /\ pc[s] = "done" /\ EmptyScrape(s)
        /\ run_no[s] = 2 /\ already_seen_count[s] >= 1
        /\ SummaryStatuses(s) = {"success"}

\* the job of the list whose result the map keeps for id: the last with that id
LastWithId(jobs, id) ==
    jobs[CHOOSE i \in 1..Len(jobs) :
            /\ jobs[i].job_id = id
            /\ \A k \in 1..Len(jobs) : jobs[k].job_id = id => k <= i]

\* C22: batch_rule_based_match never raises and returns an entry for every
\* input job (jobs are told apart by job_id): a job for which rule_based_match
\* raises gets a FAIR/CONSIDER record with all scores 50, llm_analysis false
\* and the error as fallback_reason, and the other jobs keep the result
\* rule_based_match computes for them
C22_BatchRuleBasedTotal ==
    call.phase = "rule_batch_returned" =>
        /\ DOMAIN call.result = IdsOf(call.jobs)
        /\ \A id \in IdsOf(call.jobs) :
              LET job == LastWithId(call.jobs, id)
                  r == call.result[id]
              IN  IF GetText(job.description).t = "None"
                  THEN /\ r.job_id = id
                       /\ r.classification = "FAIR" /\ r.recommendation = "CONSIDER"
                       /\ r.scores = [ technical |-> PyNum(500), experience |-> PyNum(500),
                                       culture |-> PyNum(500), total |-> PyNum(500) ]
                       /\ r.llm_analysis = FALSE
                       /\ r.fallback_reason = "Rule-based analysis error"
                  ELSE /\ r = rule_based_match(job, call.resume_data)
                       /\ r.fallback_reason = "Rule-based analysis (LLM unavailable)"

\* a batch of two postings: the analysis of one raised, the other was scored
C22_Witness ==
    /\ call.phase = "rule_batch_returned"
    /\ Cardinality(DOMAIN call.result) = 2
    /\ \E a, b \in DOMAIN call.result :
          /\ call.result[a].fallback_reason = "Rule-based analysis error"
          /\ call.result[b].fallback_reason = "Rule-based analysis (LLM unavailable)"
          /\ call.result[b].classification = "EXCELLENT"

\* C23: the extractors never fail on an empty or None text:
\* extract_skills_from_text returns an empty collection,
\* extract_years_of_experience returns 0 and detect_experience_level the
\* default tier 'mid'
C23_ExtractorsTotalOnEmptyText ==
    ( /\ call.phase = "extracted"
      /\ ~Truthy(GetText(call.jobs[1].description)) ) =>
        /\ call.result.skills = {}
        /\ call.result.years = PyNum(0)
        /\ call.result.level = "mid"

\* the order of the tiers: POOR < FAIR < GOOD < EXCELLENT
TierRank(classification) ==
    CASE classification = "POOR" -> 1
      [] classification = "FAIR" -> 2
      [] classification = "GOOD" -> 3
      [] classification = "EXCELLENT" -> 4

\* the inputs on which rule_based_match returns
RuleInputs ==
    {in \in [job : RuleJobs, resume_data : RuleProfiles] :
        ~rule_based_match_raises(in.job, in.resume_data)}

\* the result of the call under study
RuleResult == call.result[call.jobs[1].job_id]

\* C24: in rule_based_match, with the set of detected red flags held fixed,
\* a higher total never yields a lower tier: no other input with the same red
\* flags and a total at least as high is classified lower than this result
C24_ClassificationMonotone ==
    call.phase = "rule_returned" =>
        \A in \in RuleInputs :
            LET other == rule_based_match(in.job, in.resume_data)
            IN  ( /\ other.deal_breakers = RuleResult.deal_breakers
                  /\ other.scores.total.v >= RuleResult.scores.total.v ) =>
                    TierRank(other.classification) >= TierRank(RuleResult.classification)

\* a result below the top tier, while another input with the same red flags
\* scores higher and is classified higher
C24_Witness ==
    /\ call.phase = "rule_returned"
    /\ RuleResult.classification = "GOOD" /\ RuleResult.deal_breakers = {}
    /\ \E in \in RuleInputs :
          LET other == rule_based_match(in.job, in.resume_data)
          IN  /\ other.deal_breakers = {}
              /\ other.scores.total.v > RuleResult.scores.total.v
              /\ other.classification = "EXCELLENT"
    /\ \E in \in RuleInputs :
          LET other == rule_based_match(in.job, in.resume_data)
          IN  /\ other.deal_breakers = {}
              /\ other.scores.total.v < RuleResult.scores.total.v
              /\ other.classification \in {"POOR", "FAIR"}

\* C25: rule_based_match classifies a total >= 80 as EXCELLENT/APPLY, >= 65 as
\* GOOD/APPLY, >= 50 as FAIR/CONSIDER and anything lower as POOR/SKIP; with a
\* red flag detected EXCELLENT becomes GOOD, the other tiers stay, and the
\* recommendation is CONSIDER whatever the score
C25_ThresholdsAndRedFlags ==
    call.phase = "rule_returned" =>
        LET total == RuleResult.scores.total.v
            flagged == detect_red_flags(GetText(call.jobs[1].description)) # {}
            tier == IF total >= 800 THEN "EXCELLENT"
                    ELSE IF total >= 650 THEN "GOOD"
                    ELSE IF total >= 500 THEN "FAIR"
                    ELSE "POOR"
            advice == IF total >= 650 THEN "APPLY"
                      ELSE IF total >= 500 THEN "CONSIDER"
                      ELSE "SKIP"
        IN  /\ RuleResult.deal_breakers # {} <=> flagged
            /\ ~flagged => /\ RuleResult.classification = tier
                           /\ RuleResult.recommendation = advice
            /\ flagged => /\ RuleResult.classification =
                                 IF tier = "EXCELLENT" THEN "GOOD" ELSE tier
                          /\ RuleResult.recommendation = "CONSIDER"

\* a posting with a red flag whose total is at least 80: GOOD / CONSIDER
C25_Witness ==
    /\ call.phase = "rule_returned"
    /\ RuleResult.scores.total.v >= 800
    /\ RuleResult.deal_breakers # {}
    /\ RuleResult.classification = "GOOD" /\ RuleResult.recommendation = "CONSIDER"

\* C26: calculate_experience_score returns 100 when the candidate's years are
\* >= the required years, 80 when >= 70% of them, 60 when >= 50% and 40
\* otherwise, a requirement of 0 being first replaced by the tier's default
\* (entry 1, mid 3, senior 6, expert 10); 2 years against 5 required give 40
C26_ExperienceScoreBands ==
    call.phase = "scored" =>
        LET have == call.result.resume_years
            default == CASE call.result.job_level = "entry" -> 1
                         [] call.result.job_level = "mid" -> 3
                         [] call.result.job_level = "senior" -> 6
                         [] call.result.job_level = "expert" -> 10
            need == IF call.result.required_years = 0 THEN default
                    ELSE call.result.required_years
            \* have / need as a percentage is at least p
            ratioAtLeast(p) == 100 * have >= p * need
        IN  /\ call.result.score =
                  IF ratioAtLeast(100) THEN 100
                  ELSE IF ratioAtLeast(70) THEN 80
                  ELSE IF ratioAtLeast(50) THEN 60
                  ELSE 40
            /\ (have = 2 /\ call.result.required_years = 5) => call.result.score = 40

\* 2 years against a stated requirement of 5 scored 40
C26_Witness ==
    /\ call.phase = "scored"
    /\ call.result.resume_years = 2 /\ call.result.required_years = 5
    /\ call.result.score = 40

SamePosting(job_url) ==
    {u \in Urls : /\ u.scheme = job_url.scheme /\ u.netloc = job_url.netloc
                  /\ u.path = job_url.path}

\* C28: extract_linkedin_job_id_from_url depends only on the URL's scheme,
\* host and path: URLs that differ only in the query string yield the same
\* job_id; the id of the scraper's pre-scrape check equals the job_id stored
\* on the scraped job, which is the one the orchestrator looks up, so a record
\* written for the scraped job makes the scraper drop every URL of the posting
C28_JobIdIgnoresQuery ==
    call.phase = "identified" =>
        /\ call.result.job.job_id = call.result.job_id
        /\ \A u \in SamePosting(call.result.job_url) :
              /\ extract_linkedin_job_id_from_url(u) = call.result.job_id
              /\ new_job_urls_of(<<u>>,
                     <<notification_document(call.result.job, "success", 1)>>) = <<>>
        /\ \A u \in Urls \ SamePosting(call.result.job_url) :
              new_job_urls_of(<<u>>,
                  <<notification_document(call.result.job, "success", 1)>>) = <<u>>

\* a URL with a tracking parameter got the id of the same URL without it
C28_Witness ==
    /\ call.phase = "identified"
    /\ call.result.job_url.query # ""
    /\ \E u \in SamePosting(call.result.job_url) :
          /\ u.query = ""
          /\ extract_linkedin_job_id_from_url(u) = call.result.job.job_id

C30_ClientOpenWhileHandlesInUse ==
    \A s \in Slots :
        pc[s] \in {"scrape", "filter", "resume", "match", "perjob"} => client = "client"

\* C31: at the end of every run, each job for which send_discord_notification
\* was called has a notification record in the store (so that no later run
\* delivers it again), also when the insert of the record or the insert of
\* the error record fails
C31_SentJobsRecorded ==
    \A s \in Slots :
        Ended(s) =>
            \A id \in JobIds : Calls(trace[s], "send", id) # {} => id \in RecordedIds

\* C32: the key set of the map batch_match_jobs returns equals the set of
\* input job_ids: a result the service returns under a job_id that was not in
\* the request is not part of the map
C32_ResultKeysAreInputIds ==
    call.phase = "returned" => DOMAIN call.result = IdsOf(call.jobs)

\* C33: the years of experience parse_resume stores in the profile are the
\* candidate-years of rule_based_match: for such a profile with N years and a
\* job requiring R years, the experience score is the band of N against R
C33_ProfileYearsAreScored ==
    (call.phase = "rule_returned" /\ call.resume_data = parse_resume) =>
        LET job_description == GetText(call.jobs[1].description)
        IN  RuleResult.scores.experience =
                PyNum(10 * calculate_experience_score(
                               call.resume_data.experience_years,
                               extract_years_of_experience(job_description),
                               detect_experience_level(job_description)))

\* C34: the pre-filter's skill count uses the extractor's case-insensitive
\* whole-word matching: a required-skill keyword that occurs only inside a
\* longer word ('spark' in 'pyspark', 'sql' in 'mysql') is not counted toward
\* MIN_SKILL_MATCHES
C34_PreFilterCountsWholeWords ==
    call.phase = "filtered" =>
        LET job == call.jobs[1]
            both == LowerText(FStr(GetText(job.job_title)) \o FStr(GetText(job.description)))
            whole == {k \in REQUIRED_SKILLS : WholeWordIn(k, both)}
        IN  /\ call.result.first.skill_matches = whole
            /\ call.result.first.skill_count = Cardinality(whole)

\* the positions of the new jobs of slot s whose match result came from the
\* reasoning service
ServiceMatched(s) ==
    {i \in 1..Len(truly_new_jobs[s]) :
        /\ truly_new_jobs[s][i].job_id \in DOMAIN match_results[s]
        /\ match_results[s][truly_new_jobs[s][i].job_id].llm_analysis}

\* C35: in the run summary llm_successes is the number of new jobs whose match
\* result came from the reasoning service and llm_fallbacks the number whose
\* result is rule-based, so the two add up to new_jobs
C35_LlmCountersMatchProvenance ==
    \A s \in Slots :
        (pc[s] = "perjob" /\ idx[s] > Len(truly_new_jobs[s])) =>
            /\ stats[s].llm_successes = Cardinality(ServiceMatched(s))
            /\ stats[s].llm_fallbacks = Len(truly_new_jobs[s]) - Cardinality(ServiceMatched(s))
            /\ stats[s].llm_successes + stats[s].llm_fallbacks = stats[s].new_jobs

\* the number of jobs of the run of slot s that ended in the handler of the
\* per-job loop (lines 408-422), read from the trace tr
HandlerJobs(tr) ==
    Cardinality({i \in 1..Len(tr) : /\ tr[i].op = "insert_notification"
                                     /\ tr[i].status = "error"})

\* C36: the run counters are conserved: once the dedup check has run,
\* new_jobs + already_notified = jobs_scraped; when the per-job loop
\* completes, matches_found + below_threshold + the number of jobs that ended
\* in the per-job error handler = new_jobs, notifications_sent <=
\* matches_found, and top_matches holds at most 5 APPLY-path jobs in
\* descending score order
C36_CountersConserved ==
    [][ \A s \in Slots :
          /\ pc'[s] \in {"resume", "match", "perjob"} =>
                stats'[s].new_jobs + stats'[s].already_notified = stats'[s].jobs_scraped
          /\ (pc[s] = "perjob" /\ idx[s] > Len(truly_new_jobs[s]) /\ pc'[s] = "finally") =>
                LET st == stats'[s]
                    top == st.top_matches
                IN  /\ st.matches_found + st.below_threshold + HandlerJobs(trace'[s])
                          = st.new_jobs
                    /\ st.notifications_sent <= st.matches_found
                    /\ Len(top) <= 5
                    /\ \A i \in 1..Len(top) :
                          top[i].score >= 10 * MIN_MATCH_SCORE \/ FORCE_NOTIFY
                    /\ \A i \in 1..(Len(top) - 1) : top[i].score >= top[i + 1].score
      ]_vars

\* C37: llm_match_job always returns a match record and never raises: the
\* models are tried in list order and the first whose reply parses to JSON
\* wins; when every model fails or an exception occurs the rule-based result
\* is returned stamped llm_analysis=false with a fallback_reason, also for a
\* job with an empty description
C37_LlmMatchJobTotal ==
    call.phase = "llm_done" =>
        LET out == call.result.outcome
        IN  /\ out.t = "dict"
            /\ out.llm_analysis =>
                  \E i \in 1..Len(FREE_MODELS) : out.llm_model = FREE_MODELS[i]
            /\ ~out.llm_analysis =>
                  /\ out.fallback_reason \in {"llm_parsing_failed_all_models",
                                              "llm_matching_failed_all_models", "exception"}
                  /\ out.body = match_job(call.jobs[1], call.resume_data)

\* a run of slot s is executing
InFlight(s) == pc[s] \notin {"idle", "done", "crashed"}

\* C38: the in-process scheduler never has two executions of
\* scrape_and_match_task in flight at the same time: the startup run ends
\* before the scheduler starts, and a morning or hourly run that is still
\* executing when the next trigger fires keeps that run from starting
C38_OneRunInFlight ==
    \A s, t \in Slots : (InFlight(s) /\ InFlight(t)) => s = t

====
